---- MODULE Spec2Model ----
(***************************************************************************)
(* A model of lib/python/Components/config.py: the typed configuration     *)
(* elements (ConfigElement and its variants), the cursor driven sequence   *)
(* editors, the selector, the three containers and the persistence codec   *)
(* of the root Config object.                                              *)
(*                                                                         *)
(* Python objects are records.  A Python exception leaves the object as it *)
(* was when the exception was raised and names the exception in the field  *)
(* err.  Python strings are sequences of one-character strings, so that    *)
(* str(), int(), split() and strip() are computed and not assumed.         *)
(***************************************************************************)
EXTENDS Integers, Sequences, FiniteSets, TLC

VARIABLES
    seq,      \* the sequence editor under edit (ConfigSequence and subclasses)
    seq0,     \* the editor as the behaviour found it, before any key
    keys,     \* the handleKey calls made on seq so far: <<key, code>> each
    wide,     \* config.usage.time.wide.value: 12 hour clock display
    run,      \* the current run of successive increment() calls on seq
    sel,      \* the ConfigSelection under edit
    sel0,     \* the selector as the behaviour found it
    selprev,  \* the selector as the last call found it
    selops,   \* the calls made on sel so far
    el,       \* the element under edit, of any variant
    elprev,   \* the element as the last call found it
    elops,    \* the calls made on el so far
    config,   \* the root Config object with the tree of containers below it
    configprev, \* the tree as the last call found it
    text,     \* the string the last pickle() returned
    read,     \* the lines of the unpickle() that set the stored values
    treeop,   \* the last call made on the tree
    steps,    \* the number of calls made on the tree so far
    PY2,      \* six.PY2: TRUE when the interpreter is Python 2
    disk,     \* the paths for which fileExists() holds
    fs,       \* the settings file and its ".writing" companion on the medium
    pc        \* the statement of saveToFile() that runs next

seqVars == <<seq, seq0, keys, wide, run>>
selVars == <<sel, sel0, selprev, selops>>
elVars == <<el, elprev, elops>>
treeVars == <<config, configprev, text, read, treeop, steps>>
envVars == <<PY2, disk>>
fileVars == <<fs, pc>>
vars == <<seqVars, selVars, elVars, treeVars, envVars, fileVars>>

(***************************************************************************)
(* Bounds of the model.                                                    *)
(***************************************************************************)
MaxKeys == 3      \* handleKey calls in one behaviour of an editor

(***************************************************************************)
(* Action keys, lines 16-41.                                               *)
(***************************************************************************)
ACTIONKEY_LEFT == 0
ACTIONKEY_RIGHT == 1
ACTIONKEY_SELECT == 2
ACTIONKEY_DELETE == 3
ACTIONKEY_BACKSPACE == 4
ACTIONKEY_FIRST == 5
ACTIONKEY_LAST == 6
ACTIONKEY_TOGGLE == 7
ACTIONKEY_ASCII == 8
ACTIONKEY_TIMEOUT == 9
ACTIONKEY_0 == 12
ACTIONKEY_NUMBERS == 12 .. 21
ACTIONKEY_PAGEUP == 22
ACTIONKEY_PAGEDOWN == 23
ACTIONKEY_ERASE == 26

getKeyNumber(key) == key - ACTIONKEY_0

(***************************************************************************)
(* Python built-ins on integers.                                           *)
(***************************************************************************)
RECURSIVE Pow10(_)
Pow10(k) == IF k <= 0 THEN 1 ELSE 10 * Pow10(k - 1)

\* len(str(n)) for an integer n
RECURSIVE NumLen(_)
NumLen(n) ==
    IF n < 0 THEN 1 + NumLen(-n)
    ELSE IF n < 10 THEN 1 ELSE 1 + NumLen(n \div 10)

Abs(n) == IF n < 0 THEN -n ELSE n

RECURSIVE SumSeq(_)
SumSeq(s) == IF s = <<>> THEN 0 ELSE Head(s) + SumSeq(Tail(s))

(***************************************************************************)
(* Notifier registry of an element.  notifiers is the private list         *)
(* __notifiers: None, a list, or (after clearNotifiers) a dict.            *)
(***************************************************************************)
NoNotifiers == [t |-> "none", v |-> <<>>]
ListOf(s) == [t |-> "list", v |-> s]

\* ConfigElement.__getExtraArgs: the context registered for notifier x, or None
getExtraArgs(e, x) ==
    LET hits == SelectSeq(e.extra_args, LAMBDA p : p[1] = x)
    IN  IF hits = <<>> THEN "None" ELSE hits[1][2]

\* ConfigElement.changed: call every immediate notifier, in list order
changed(e) ==
    IF e.notifiers.v # <<>>
    THEN [e EXCEPT !.fired = @ \o
            [i \in 1 .. Len(e.notifiers.v) |->
                [cb |-> e.notifiers.v[i],
                 arg |-> getExtraArgs(e, e.notifiers.v[i]),
                 seen |-> e.value]]]
    ELSE e

\* ConfigElement.changedFinal: call every final notifier, in list order
changedFinal(e) ==
    IF e.notifiers_final.v # <<>>
    THEN [e EXCEPT !.fired = @ \o
            [i \in 1 .. Len(e.notifiers_final.v) |->
                [cb |-> e.notifiers_final.v[i],
                 arg |-> getExtraArgs(e, e.notifiers_final.v[i]),
                 seen |-> e.value]]]
    ELSE e

\* The saved_value None
None == [t |-> "none", v |-> <<>>]
\* A saved_value that is the string s
Str(s) == [t |-> "str", v |-> s]

\* ConfigElement.__init__: the fields every element starts with.  fired and
\* err are the model's record of the notifier calls made and the exception
\* raised by the call in progress.
ConfigElement ==
    [save_disabled |-> FALSE, save_forced |-> FALSE, saved_value |-> None,
     extra_args |-> <<>>, notifiers |-> NoNotifiers,
     notifiers_final |-> NoNotifiers, enabled |-> TRUE,
     callNotifiersOnSaveAndCancel |-> FALSE,
     fired |-> <<>>, endFired |-> <<>>, err |-> "none"]

\* The bookkeeping a call starts from: nothing fired yet and no exception.
Begin(e) == [e EXCEPT !.fired = <<>>, !.endFired = <<>>, !.err = "none"]

\* ConfigElement.addNotifier; extra_args is "None", or a context that is
\* truthy ("ctx") or falsy ("empty", such as 0, "" or [])
addNotifier(e, notifier, initial_call, immediate_feedback, extra_args) ==
    LET withArgs == IF extra_args # "None"
                    THEN [e EXCEPT !.extra_args = Append(@, <<notifier, extra_args>>)]
                    ELSE e
        target == IF immediate_feedback THEN withArgs.notifiers
                  ELSE withArgs.notifiers_final
        appended == ListOf(Append(target.v, notifier))
        call == [cb |-> notifier,
                 arg |-> IF extra_args \in {"None", "empty"} THEN "None" ELSE extra_args,
                 seen |-> e.value]
    IN  IF target.t = "dict" THEN [withArgs EXCEPT !.err = "AttributeError"]
        ELSE LET added == IF immediate_feedback
                          THEN [withArgs EXCEPT !.notifiers = appended]
                          ELSE [withArgs EXCEPT !.notifiers_final = appended]
             IN  IF initial_call
                 THEN [added EXCEPT !.fired = Append(@, call)]
                 ELSE added

(***************************************************************************)
(* ConfigSequence, lines 913-1054.  value is the list _value; default and  *)
(* lastValue are lists too.  valIsDefault says that _value and default are *)
(* one and the same list object (load() with no saved value assigns        *)
(* default itself), lastIsDefault the same of lastValue and default        *)
(* (__init__ assigns one list to both).                                    *)
(***************************************************************************)
BlockLen(limits) == [i \in 1 .. Len(limits) |-> NumLen(limits[i][2])]

\* self._value[...] = ... for every field at once: a write into the list object
InPlace(e, newv) ==
    [e EXCEPT !.value = newv,
              !.default = IF e.valIsDefault THEN newv ELSE @,
              !.lastValue = IF e.valIsDefault /\ e.lastIsDefault THEN newv ELSE @]

\* self._value[i] = x, i counted from 0
WriteField(e, i, x) == InPlace(e, [e.value EXCEPT ![i + 1] = x])

\* ConfigSequence.__init__
ConfigSequence(cls, seperator, limits, default) ==
    [cls |-> cls, seperator |-> seperator, limits |-> limits,
     value |-> default, default |-> default, lastValue |-> default,
     valIsDefault |-> FALSE, lastIsDefault |-> TRUE,
     marked_pos |-> 0, marked_block |-> 0, overwrite |-> TRUE,
     auto_jump |-> FALSE, block_len |-> BlockLen(limits),
     endNotifier |-> <<>>] @@ ConfigElement

ClampField(v, lim) ==
    LET a == IF v < lim[1] THEN lim[1] ELSE v
    IN  IF a > lim[2] THEN lim[2] ELSE a

\* validate with the clamp to the upper limit left out
validate_NoUpperClamp(e) ==
    LET max_pos == SumSeq([i \in 1 .. Len(e.value) |-> NumLen(e.limits[i][2])])
        high == IF e.marked_pos >= max_pos
                THEN [e EXCEPT !.marked_pos = max_pos - 1]
                ELSE e
    IN  IF high.marked_pos < 0 THEN [high EXCEPT !.marked_pos = 0] ELSE high

\* ConfigSequence.validate
validate(e) ==
    LET max_pos == SumSeq([i \in 1 .. Len(e.value) |-> NumLen(e.limits[i][2])])
        clamped == InPlace(e, [i \in 1 .. Len(e.value) |->
                                  ClampField(e.value[i], e.limits[i])])
        high == IF clamped.marked_pos >= max_pos
                THEN [clamped EXCEPT !.endFired = @ \o clamped.endNotifier,
                                     !.marked_pos = max_pos - 1]
                ELSE clamped
    IN  IF high.marked_pos < 0 THEN [high EXCEPT !.marked_pos = 0] ELSE high

\* validatePos with the clamp at column 0 left out
validatePos_NoLowerClamp(e) ==
    LET total_len == SumSeq(BlockLen(e.limits))
    IN  IF e.marked_pos >= total_len
        THEN [e EXCEPT !.marked_pos = total_len - 1]
        ELSE e

\* ConfigSequence.validatePos
validatePos(e) ==
    LET low == IF e.marked_pos < 0 THEN [e EXCEPT !.marked_pos = 0] ELSE e
        total_len == SumSeq(BlockLen(e.limits))
    IN  IF low.marked_pos >= total_len
        THEN [low EXCEPT !.marked_pos = total_len - 1]
        ELSE low

\* The loop of lines 989-998: st is (pos, blocknumber, block_len_total)
RECURSIVE BlockScan(_, _, _, _)
BlockScan(block_len, marked_pos, k, st) ==
    IF k > Len(block_len) THEN st
    ELSE LET pos == st.pos + block_len[st.blocknumber + 1]
         IN  BlockScan(block_len, marked_pos, k + 1,
                 [pos |-> pos,
                  blocknumber |-> IF pos - 1 >= marked_pos
                                  THEN st.blocknumber
                                  ELSE st.blocknumber + 1,
                  block_len_total |-> Append(st.block_len_total, pos)])

\* The digit of a key press: None for an ASCII code that is no digit
KeyDigit(key, code) ==
    IF key = ACTIONKEY_ASCII
    THEN IF code < 48 \/ code > 57 THEN -1 ELSE code - 48
    ELSE getKeyNumber(key)

\* ConfigSequence.handleKey; code is what getPrevAsciiCode() returns
SeqHandleKey(e, key, code) ==
    IF key = ACTIONKEY_FIRST THEN validatePos([e EXCEPT !.marked_pos = 0])
    ELSE IF key = ACTIONKEY_LEFT THEN validatePos([e EXCEPT !.marked_pos = @ - 1])
    ELSE IF key = ACTIONKEY_RIGHT THEN validatePos([e EXCEPT !.marked_pos = @ + 1])
    ELSE IF key = ACTIONKEY_LAST
    THEN validatePos([e EXCEPT !.marked_pos =
            SumSeq([i \in 1 .. Len(e.value) |-> NumLen(e.limits[i][2])]) - 1])
    ELSE IF key \in ACTIONKEY_NUMBERS \/ key = ACTIONKEY_ASCII
    THEN LET number == KeyDigit(key, code)
             block_len == BlockLen(e.limits)
             st == BlockScan(block_len, e.marked_pos, 1,
                       [pos |-> 0, blocknumber |-> 0, block_len_total |-> <<0>>])
             blocknumber == st.blocknumber
         IN  IF number < 0 THEN e
             ELSE IF blocknumber >= Len(e.limits)
             THEN [e EXCEPT !.err = "IndexError"]
             ELSE LET number_len == NumLen(e.limits[blocknumber + 1][2])
                      posinblock == e.marked_pos - st.block_len_total[blocknumber + 1]
                      oldvalue == Abs(e.value[blocknumber + 1])
                      olddec == (oldvalue % Pow10(number_len - posinblock))
                                - (oldvalue % Pow10(number_len - posinblock - 1))
                      newvalue == oldvalue - olddec
                                  + (Pow10(number_len - posinblock - 1) * number)
                      written == WriteField(e, blocknumber, newvalue)
                  IN  changed(validate([written EXCEPT !.marked_pos = @ + 1]))
    ELSE e

(***************************************************************************)
(* ConfigIP, lines 1297-1347, and ConfigCECAddress, lines 1057-1107: the   *)
(* fixed-block editors.                                                    *)
(***************************************************************************)
ip_limits == << <<0, 255>>, <<0, 255>>, <<0, 255>>, <<0, 255>> >>
cec_limits == << <<0, 15>>, <<0, 15>>, <<0, 15>>, <<0, 15>> >>

\* ConfigIP.__init__
ConfigIP(default, auto_jump) ==
    [ConfigSequence("ConfigIP", ".", ip_limits, default)
        EXCEPT !.auto_jump = auto_jump]

\* ConfigCECAddress.__init__
ConfigCECAddress(default, auto_jump) ==
    [ConfigSequence("ConfigCECAddress", ".", cec_limits, default)
        EXCEPT !.auto_jump = auto_jump]

\* The cursor branches with RIGHT forgetting to set overwrite
IPCursorKey_KeepAppend(e, key) ==
    IF key = ACTIONKEY_LEFT
    THEN [e EXCEPT !.marked_block = IF @ > 0 THEN @ - 1 ELSE @,
                   !.overwrite = TRUE]
    ELSE IF key = ACTIONKEY_RIGHT
    THEN [e EXCEPT !.marked_block = IF @ < Len(e.limits) - 1 THEN @ + 1 ELSE @]
    ELSE IF key = ACTIONKEY_FIRST
    THEN [e EXCEPT !.marked_block = 0, !.overwrite = TRUE]
    ELSE [e EXCEPT !.marked_block = Len(e.limits) - 1, !.overwrite = TRUE]

\* The cursor branches of ConfigIP.handleKey, lines 1309-1322
IPCursorKey(e, key) ==
    IF key = ACTIONKEY_LEFT
    THEN [e EXCEPT !.marked_block = IF @ > 0 THEN @ - 1 ELSE @,
                   !.overwrite = TRUE]
    ELSE IF key = ACTIONKEY_RIGHT
    THEN [e EXCEPT !.marked_block = IF @ < Len(e.limits) - 1 THEN @ + 1 ELSE @,
                   !.overwrite = TRUE]
    ELSE IF key = ACTIONKEY_FIRST
    THEN [e EXCEPT !.marked_block = 0, !.overwrite = TRUE]
    ELSE [e EXCEPT !.marked_block = Len(e.limits) - 1, !.overwrite = TRUE]

\* Lines 1344-1347: move on when the block is full, validate, notify
IPFinishDigit(e) ==
    LET moved == IF NumLen(e.value[e.marked_block + 1]) >= e.block_len[e.marked_block + 1]
                 THEN IPCursorKey(e, ACTIONKEY_RIGHT)
                 ELSE e
    IN  changed(validate(moved))

\* ConfigIP.handleKey
RECURSIVE IPHandleKey(_, _, _)
IPHandleKey(e, key, code) ==
    IF key \in {ACTIONKEY_LEFT, ACTIONKEY_RIGHT, ACTIONKEY_FIRST, ACTIONKEY_LAST}
    THEN IPCursorKey(e, key)
    ELSE IF key \in ACTIONKEY_NUMBERS \/ key = ACTIONKEY_ASCII
    THEN LET number == KeyDigit(key, code)
             oldvalue == e.value[e.marked_block + 1]
             newvalue == (oldvalue * 10) + number
         IN  IF number < 0 THEN e
             ELSE IF e.overwrite
             THEN IPFinishDigit([WriteField(e, e.marked_block, number)
                                    EXCEPT !.overwrite = FALSE])
             ELSE IF /\ e.auto_jump
                     /\ newvalue > e.limits[e.marked_block + 1][2]
                     /\ e.marked_block < Len(e.limits) - 1
             THEN IPHandleKey(IPHandleKey(e, ACTIONKEY_RIGHT, code), key, code)
             ELSE IPFinishDigit(WriteField(e, e.marked_block, newvalue))
    ELSE e

\* ConfigCECAddress.handleKey: the same text as ConfigIP.handleKey
CECHandleKey(e, key, code) == IPHandleKey(e, key, code)

(***************************************************************************)
(* ConfigClock, lines 1133-1221.                                           *)
(***************************************************************************)
clock_limits == << <<0, 23>>, <<0, 59>> >>

\* ConfigClock.__init__; default is [tm_hour, tm_min] of the given time
ConfigClock(default) == ConfigSequence("ConfigClock", ":", clock_limits, default)

\* increment with the hour not wrapping from 23 to 0
increment_NoWrap(e) ==
    changed(IF e.value[2] = 59
            THEN InPlace(e, <<e.value[1] + 1, 0>>)
            ELSE WriteField(e, 1, e.value[2] + 1))

\* ConfigClock.increment
increment(e) ==
    changed(IF e.value[2] = 59
            THEN InPlace(e, <<IF e.value[1] < 23 THEN e.value[1] + 1 ELSE 0, 0>>)
            ELSE WriteField(e, 1, e.value[2] + 1))

\* ConfigClock.decrement without the wrap of the hour from 0 to 23
decrement_NoWrap(e) ==
    changed(IF e.value[2] = 0
            THEN InPlace(e, <<e.value[1] - 1, 59>>)
            ELSE WriteField(e, 1, e.value[2] - 1))

\* ConfigClock.decrement
decrement(e) ==
    changed(IF e.value[2] = 0
            THEN InPlace(e, <<IF e.value[1] > 0 THEN e.value[1] - 1 ELSE 23, 59>>)
            ELSE WriteField(e, 1, e.value[2] - 1))

\* Lines 1182-1187: the hour as the buffer shows it, 1 .. 12 when w
ClockShownHour(e, w) ==
    LET pmadjust == IF w /\ e.value[1] > 11 THEN 12 ELSE 0
        h12 == e.value[1] - pmadjust
    IN  IF w THEN (IF h12 = 0 THEN 12 ELSE h12) ELSE e.value[1]

\* Lines 1188-1201: the legality checks that make handleKey return at once
ClockRejects(e, digit, w) ==
    LET hour == ClockShownHour(e, w)
    IN  \/ /\ w
           /\ \/ e.marked_pos = 0 /\ digit >= 2
              \/ e.marked_pos = 1 /\ hour > 9 /\ digit >= 3
              \/ e.marked_pos = 1 /\ hour < 10 /\ digit = 0
        \/ /\ ~w
           /\ \/ e.marked_pos = 0 /\ digit >= 3
              \/ e.marked_pos = 1 /\ hour > 19 /\ digit >= 4
        \/ e.marked_pos = 2 /\ digit >= 6

\* The hour of the buffer taken as it stands in 12 hour mode: 12 is not
\* mapped back to 0
ClockHour_Keep12(hour2, pmadjust, w) ==
    IF w
    THEN (IF hour2 > 12 THEN 10 ELSE hour2) + pmadjust
    ELSE IF hour2 > 23 THEN 20 ELSE hour2

\* Lines 1206-1213: the hour stored for the hour hour2 of the buffer
ClockHour(hour2, pmadjust, w) ==
    IF w
    THEN (IF hour2 = 12 THEN 0
          ELSE IF hour2 > 12 THEN 10 ELSE hour2) + pmadjust
    ELSE IF hour2 > 23 THEN 20 ELSE hour2

\* ConfigClock.handleKey; w is config.usage.time.wide.value
ClockHandleKey(e, key, code, w) ==
    IF key = ACTIONKEY_DELETE /\ w
    THEN IF e.value[1] < 12
         THEN changed(validate(WriteField(e, 0, e.value[1] + 12)))
         ELSE e
    ELSE IF key = ACTIONKEY_BACKSPACE /\ w
    THEN IF e.value[1] >= 12
         THEN changed(validate(WriteField(e, 0, e.value[1] - 12)))
         ELSE e
    ELSE IF key \in ACTIONKEY_NUMBERS \/ key = ACTIONKEY_ASCII
    THEN LET digit == KeyDigit(key, code)
             pmadjust == IF w /\ e.value[1] > 11 THEN 12 ELSE 0
             hour == ClockShownHour(e, w)
             buf == <<hour \div 10, hour % 10, e.value[2] \div 10, e.value[2] % 10>>
             new == [buf EXCEPT ![e.marked_pos + 1] = digit]
             hour2 == (new[1] * 10) + new[2]
             minute == (new[3] * 10) + new[4]
             hour3 == ClockHour(hour2, pmadjust, w)
         IN  IF digit < 0 \/ ClockRejects(e, digit, w) THEN e
             ELSE IF e.marked_pos > 3 THEN [e EXCEPT !.err = "IndexError"]
             ELSE changed(validate([InPlace(e, <<hour3, minute>>)
                                       EXCEPT !.marked_pos = @ + 1]))
    ELSE SeqHandleKey(e, key, code)

\* handleKey as the class of e dispatches it
handleKey(e, key, code, w) ==
    IF e.cls = "ConfigIP" THEN IPHandleKey(e, key, code)
    ELSE IF e.cls = "ConfigCECAddress" THEN CECHandleKey(e, key, code)
    ELSE IF e.cls = "ConfigClock" THEN ClockHandleKey(e, key, code, w)
    ELSE SeqHandleKey(e, key, code)

(***************************************************************************)
(* The sequence editors under key presses.                                 *)
(***************************************************************************)
seq_limits == << <<1, 31>>, <<1, 12>> >>

\* An editor after registration of one immediate notifier
Watched(e) == Begin(addNotifier(e, "n1", FALSE, TRUE, "None"))

\* The editors a behaviour starts from: constructed, one notifier registered,
\* the cursor on any column (block) that cursor keys reach
SeqEditors ==
    { [Watched(ConfigSequence("ConfigSequence", ".", seq_limits, v))
          EXCEPT !.marked_pos = p] :
        v \in {<<1, 1>>, <<31, 12>>}, p \in {0, 3} }
    \cup { [Watched(ConfigIP(v, a)) EXCEPT !.marked_block = b] :
        v \in {<<0, 0, 0, 0>>, <<192, 168, 1, 255>>}, a \in BOOLEAN, b \in {0, 3} }
    \cup { [Watched(ConfigCECAddress(v, a)) EXCEPT !.marked_block = b] :
        v \in {<<15, 1, 15, 0>>}, a \in BOOLEAN, b \in {0, 3} }
    \cup { [Watched(ConfigClock(v)) EXCEPT !.marked_pos = p] :
        v \in {<<9, 59>>, <<12, 30>>, <<23, 59>>}, p \in 0 .. 3 }

CursorKeys == {ACTIONKEY_LEFT, ACTIONKEY_RIGHT, ACTIONKEY_FIRST, ACTIONKEY_LAST}
DigitKeys == {ACTIONKEY_0 + d : d \in {0, 2, 5, 6, 9}}
OtherKeys == {ACTIONKEY_TOGGLE, ACTIONKEY_DELETE, ACTIONKEY_BACKSPACE}
\* getPrevAsciiCode(): "9" and "A"
AsciiCodes == {57, 65}

NoRun == [h0 |-> 0, m0 |-> 0, n |-> 0]

\* No sequence editor, no selector, no element is under edit
IdleSeq == seq = 0 /\ seq0 = 0 /\ keys = <<>> /\ wide = FALSE /\ run = NoRun
IdleSel == sel = 0 /\ sel0 = 0 /\ selprev = 0 /\ selops = <<>>
IdleEl == el = 0 /\ elprev = 0 /\ elops = <<>>
IdleTree ==
    config = 0 /\ configprev = 0 /\ text = <<>> /\ read = {} /\ treeop = 0 /\ steps = 0
\* The environment is not consulted
NoEnv == PY2 = FALSE /\ disk = {}
IdleFile == fs = 0 /\ pc = "idle"

InitSeq ==
    /\ seq \in SeqEditors
    /\ seq0 = seq
    /\ keys = <<>>
    /\ wide \in IF seq.cls = "ConfigClock" THEN BOOLEAN ELSE {FALSE}
    /\ run = NoRun
    /\ IdleSel /\ IdleEl /\ IdleTree /\ NoEnv /\ IdleFile

Press(key, code) ==
    /\ Len(keys) < MaxKeys
    /\ seq' = handleKey(Begin(seq), key, code, wide)
    /\ keys' = Append(keys, <<key, code>>)
    /\ UNCHANGED <<seq0, wide, run, selVars, elVars, treeVars, envVars, fileVars>>

CursorKey == \E key \in CursorKeys : Press(key, 0)
DigitKey == \E key \in DigitKeys : Press(key, 0)
AsciiKey == \E code \in AsciiCodes : Press(ACTIONKEY_ASCII, code)
OtherKey == \E key \in OtherKeys : Press(key, 0)

NextSeq == CursorKey \/ DigitKey \/ AsciiKey \/ OtherKey

SpecSeq == InitSeq /\ [][NextSeq]_vars

(***************************************************************************)
(* Properties of the sequence editors.                                     *)
(***************************************************************************)
\* The digit entered by the latest key press, -1 if it entered none
LastDigit(ks) ==
    IF ks = <<>> THEN -1
    ELSE LET k == ks[Len(ks)]
         IN  IF k[1] \in ACTIONKEY_NUMBERS \/ k[1] = ACTIONKEY_ASCII
             THEN KeyDigit(k[1], k[2])
             ELSE -1

LastKey(ks) == IF ks = <<>> THEN -1 ELSE ks[Len(ks)][1]

Digit(d) == <<ACTIONKEY_0 + d, 0>>

FieldsInLimits(e) ==
    \A i \in 1 .. Len(e.value) :
        e.limits[i][1] <= e.value[i] /\ e.value[i] <= e.limits[i][2]

\* C5: in a sequence editor (generic, IP, CEC address, clock) whose fields
\* start within their limits, every field lies within its [min, max] after
\* every digit entry, whatever digits and cursor moves came before; the
\* notifiers called by the digit entry see the fields within limits as well.
C5_Clamping ==
    LastDigit(keys) >= 0 =>
        /\ FieldsInLimits(seq)
        /\ \A i \in 1 .. Len(seq.fired) :
              \A j \in 1 .. Len(seq.value) :
                  /\ seq.limits[j][1] <= seq.fired[i].seen[j]
                  /\ seq.fired[i].seen[j] <= seq.limits[j][2]

\* An IP field fed 9, 9, 9 in append mode: 999 was written and clamped to 255.
C5_Witness ==
    /\ seq0 = Watched(ConfigIP(<<0, 0, 0, 0>>, FALSE))
    /\ keys = <<Digit(9), Digit(9), Digit(9)>>
    /\ seq.value = <<255, 0, 0, 0>>

CursorInRange(e) ==
    /\ 0 <= e.marked_pos /\ e.marked_pos < SumSeq(BlockLen(e.limits))
    /\ 0 <= e.marked_block /\ e.marked_block < Len(e.limits)

\* C6: after any sequence of FIRST/LAST/LEFT/RIGHT/digit actions marked_pos
\* is in [0, total printed width) and marked_block in [0, number of fields);
\* LEFT at column (block) 0 leaves the cursor there and RIGHT at the last
\* column (block) leaves it there: no wraparound.
C6_CursorSafety ==
    /\ [](CursorInRange(seq))
    /\ [][ /\ (LastKey(keys') = ACTIONKEY_LEFT /\ seq.marked_pos = 0)
                => seq'.marked_pos = 0
           /\ (LastKey(keys') = ACTIONKEY_RIGHT
                  /\ seq.marked_pos = SumSeq(BlockLen(seq.limits)) - 1)
                => seq'.marked_pos = seq.marked_pos
           /\ (LastKey(keys') = ACTIONKEY_LEFT /\ seq.marked_block = 0)
                => seq'.marked_block = 0
           /\ (LastKey(keys') = ACTIONKEY_RIGHT
                  /\ seq.marked_block = Len(seq.limits) - 1)
                => seq'.marked_block = seq.marked_block ]_vars

\* LEFT pressed with the cursor on column 0, RIGHT pressed on the last block.
C6_Witness ==
    /\ Len(keys) = 2
    /\ \/ /\ seq.cls = "ConfigSequence"
          /\ keys[1][1] = ACTIONKEY_FIRST /\ keys[2][1] = ACTIONKEY_LEFT
          /\ seq.marked_pos = 0
       \/ /\ seq.cls = "ConfigIP"
          /\ keys[1][1] = ACTIONKEY_LAST /\ keys[2][1] = ACTIONKEY_RIGHT
          /\ seq.marked_block = 3

\* C7: in a ConfigIP with auto_jump, a digit d entered in append mode on a
\* field i that is not the last, where old * 10 + d exceeds the field's
\* maximum, leaves field i unchanged, moves marked_block to i + 1 and sets
\* field i + 1 to d; from 0.0.0.0 on the first field the digits 2, 5, 6
\* give 25.6.0.0 with the second field marked.
C7_AutoJump ==
    /\ [][ LET d == LastDigit(keys')
               i == seq.marked_block + 1
           IN  ( /\ seq.cls = "ConfigIP" /\ seq.auto_jump /\ ~seq.overwrite
                 /\ d >= 0
                 /\ i < Len(seq.limits)
                 /\ (seq.value[i] * 10) + d > seq.limits[i][2] )
               => /\ seq'.value[i] = seq.value[i]
                  /\ seq'.marked_block = seq.marked_block + 1
                  /\ seq'.value[i + 1] = d ]_vars
    /\ []( ( /\ seq0 = Watched(ConfigIP(<<0, 0, 0, 0>>, TRUE))
             /\ keys = <<Digit(2), Digit(5), Digit(6)>> )
           => seq.value = <<25, 6, 0, 0>> /\ seq.marked_block = 1 )

\* The scenario's final state: 2, 5, 6 entered, the 6 carried to field 2.
C7_Witness ==
    /\ seq0 = Watched(ConfigIP(<<0, 0, 0, 0>>, TRUE))
    /\ keys = <<Digit(2), Digit(5), Digit(6)>>
    /\ seq.value[2] = 6

(***************************************************************************)
(* A ConfigClock under increment() and decrement().  run counts the        *)
(* increment() calls made in a row and remembers the value they started    *)
(* from; after 60 of them the next increment() starts a new run.           *)
(***************************************************************************)
Watched2(e) == Begin(addNotifier(Watched(e), "n2", FALSE, TRUE, "ctx"))

InitClock ==
    /\ seq \in {Watched(ConfigClock(<<12, 30>>)), Watched2(ConfigClock(<<23, 59>>))}
    /\ seq0 = seq
    /\ keys = <<>>
    /\ wide = FALSE
    /\ run = [h0 |-> seq.value[1], m0 |-> seq.value[2], n |-> 0]
    /\ IdleSel /\ IdleEl /\ IdleTree /\ NoEnv /\ IdleFile

Increment ==
    /\ seq' = increment(Begin(seq))
    /\ run' = IF run.n = 60
              THEN [h0 |-> seq.value[1], m0 |-> seq.value[2], n |-> 1]
              ELSE [run EXCEPT !.n = @ + 1]
    /\ UNCHANGED <<seq0, keys, wide, selVars, elVars, treeVars, envVars, fileVars>>

Decrement ==
    /\ seq' = decrement(Begin(seq))
    /\ run' = [h0 |-> seq'.value[1], m0 |-> seq'.value[2], n |-> 0]
    /\ UNCHANGED <<seq0, keys, wide, selVars, elVars, treeVars, envVars, fileVars>>

NextClock == Increment \/ Decrement

SpecClock == InitClock /\ [][NextClock]_vars

\* C10: from any in-range clock value (h, m), 60 successive increment()
\* calls yield ((h + 1) mod 24, m), and each call invokes every immediate
\* notifier exactly once.
C10_Increment60 ==
    /\ run.n = 60 => seq.value = <<(run.h0 + 1) % 24, run.m0>>
    /\ run.n > 0 => [i \in 1 .. Len(seq.fired) |-> seq.fired[i].cb] = seq.notifiers.v

\* 60 increments from 23:xx, through the wrap of the hour to 0.
C10_Witness ==
    /\ run.n = 60 /\ run.h0 = 23 /\ seq.value[1] = 0
    /\ Len(seq.notifiers.v) = 2 /\ Len(seq.fired) = 2

\* C11: decrement() is the exact inverse of increment(): after an increment()
\* from an in-range (h, m) a decrement() restores (h, m), and after a
\* decrement() an increment() restores (h, m), the wraps between 23:59 and
\* 00:00 included.
C11_Inverse ==
    [][ /\ seq' = increment(Begin(seq)) => decrement(Begin(seq')).value = seq.value
        /\ seq' = decrement(Begin(seq)) => increment(Begin(seq')).value = seq.value
      ]_vars

\* An increment() has taken 23:59 to 00:00, from where decrement() gives
\* 23:59 again.
C11_Witness ==
    /\ run.n = 1 /\ run.h0 = 23 /\ run.m0 = 59
    /\ seq.value = <<0, 0>>
    /\ decrement(Begin(seq)).value = <<23, 59>>

(***************************************************************************)
(* Python strings and values.  A string is a sequence of characters; a     *)
(* value whose type matters (a choice of a selector may be an int or a     *)
(* str) is tagged with its type.                                           *)
(***************************************************************************)
\* the result of a call: err names the exception it raised, if any
Ok(v) == [err |-> "none", v |-> v]
Raise(x) == [err |-> x, v |-> <<>>]

\* Python values: t is the type, and the field of that type holds the value
\* (n an int or a bool, s the characters of a str, l the members of a list,
\* d the <<key, value>> items of a dict in insertion order)
PyValue(t, n, s, l, d) == [t |-> t, n |-> n, s |-> s, l |-> l, d |-> d]
PyInt(n) == PyValue("int", n, <<>>, <<>>, <<>>)
PyStr(s) == PyValue("str", 0, s, <<>>, <<>>)
PyList(l) == PyValue("list", 0, <<>>, l, <<>>)
PyDict(items) == PyValue("dict", 0, <<>>, <<>>, items)
PyNone == PyValue("NoneType", 0, <<>>, <<>>, <<>>)
PyBool(b) == PyValue("bool", IF b THEN 1 ELSE 0, <<>>, <<>>, <<>>)

DigitChars == <<"0", "1", "2", "3", "4", "5", "6", "7", "8", "9">>
UpperChars == <<"A", "B", "C", "D", "E", "F", "G", "H", "I", "J", "K", "L", "M",
                "N", "O", "P", "Q", "R", "S", "T", "U", "V", "W", "X", "Y", "Z">>
LowerChars == <<"a", "b", "c", "d", "e", "f", "g", "h", "i", "j", "k", "l", "m",
                "n", "o", "p", "q", "r", "s", "t", "u", "v", "w", "x", "y", "z">>
Whitespace == {" ", "\n", "\t", "\r"}

IsDigitChar(c) == \E i \in 1 .. 10 : DigitChars[i] = c
DigitValue(c) == (CHOOSE i \in 1 .. 10 : DigitChars[i] = c) - 1

\* str(n) for a non-negative integer n
RECURSIVE NatToStr(_)
NatToStr(n) ==
    IF n < 10 THEN <<DigitChars[n + 1]>>
    ELSE Append(NatToStr(n \div 10), DigitChars[(n % 10) + 1])

\* str(n) for an integer n
IntToStr(n) == IF n < 0 THEN <<"-">> \o NatToStr(-n) ELSE NatToStr(n)

\* s.lower()
LowerChar(c) ==
    IF \E i \in 1 .. 26 : UpperChars[i] = c
    THEN LowerChars[CHOOSE i \in 1 .. 26 : UpperChars[i] = c]
    ELSE c
Lower(s) == [i \in 1 .. Len(s) |-> LowerChar(s[i])]

\* s.strip()
RECURSIVE LStrip(_)
LStrip(s) == IF s # <<>> /\ Head(s) \in Whitespace THEN LStrip(Tail(s)) ELSE s
RECURSIVE RStrip(_)
RStrip(s) ==
    IF s # <<>> /\ s[Len(s)] \in Whitespace
    THEN RStrip(SubSeq(s, 1, Len(s) - 1))
    ELSE s
Strip(s) == RStrip(LStrip(s))

\* The index of the first c in s, 0 if there is none
FirstIndex(s, c) ==
    IF \E i \in 1 .. Len(s) : s[i] = c
    THEN CHOOSE i \in 1 .. Len(s) : s[i] = c /\ \A j \in 1 .. i - 1 : s[j] # c
    ELSE 0

\* s.split(c): the pieces of s between the occurrences of the character c
RECURSIVE Split(_, _)
Split(s, c) ==
    LET i == FirstIndex(s, c)
    IN  IF i = 0 THEN <<s>>
        ELSE <<SubSeq(s, 1, i - 1)>> \o Split(SubSeq(s, i + 1, Len(s)), c)

\* c.join(parts)
RECURSIVE Join(_, _)
Join(parts, c) ==
    IF parts = <<>> THEN <<>>
    ELSE IF Len(parts) = 1 THEN parts[1]
    ELSE parts[1] \o <<c>> \o Join(Tail(parts), c)

RECURSIVE DigitsToNat(_)
DigitsToNat(s) ==
    IF s = <<>> THEN 0
    ELSE (DigitsToNat(SubSeq(s, 1, Len(s) - 1)) * 10) + DigitValue(s[Len(s)])

\* int(s): [ok, v]; not ok is the ValueError of a string that is no integer
ParseInt(s) ==
    LET t == Strip(s)
        signed == t # <<>> /\ t[1] \in {"-", "+"}
        digits == IF signed THEN Tail(t) ELSE t
    IN  IF digits # <<>> /\ \A i \in 1 .. Len(digits) : IsDigitChar(digits[i])
        THEN [ok |-> TRUE,
              v |-> IF signed /\ t[1] = "-" THEN -DigitsToNat(digits)
                    ELSE DigitsToNat(digits)]
        ELSE [ok |-> FALSE, v |-> 0]


(***************************************************************************)
(* str() and eval() of the list and dict values that ConfigSet,            *)
(* ConfigLocations and ConfigDictionarySet persist (lines 512-516, 596-600,*)
(* 1436-1440).  Values are tagged: int, str, list (a sequence of values)   *)
(* and dict (a sequence of <<key, value>> in insertion order).  Strings    *)
(* hold no quote and no backslash, so repr() writes them in single quotes  *)
(* unescaped; eval() is given literals only.                               *)
(***************************************************************************)

Chars_True == <<"T", "r", "u", "e">>
Chars_False == <<"F", "a", "l", "s", "e">>
Chars_None == <<"N", "o", "n", "e">>

\* sep.join(parts) for a separator of any length
RECURSIVE JoinS(_, _)
JoinS(parts, sep) ==
    IF parts = <<>> THEN <<>>
    ELSE IF Len(parts) = 1 THEN parts[1]
    ELSE parts[1] \o sep \o JoinS(Tail(parts), sep)

\* repr(x), which is what str() of a list or dict writes for its members
RECURSIVE Repr(_)
Repr(x) ==
    IF x.t = "int" THEN IntToStr(x.n)
    ELSE IF x.t = "bool" THEN IF x.n # 0 THEN Chars_True ELSE Chars_False
    ELSE IF x.t = "NoneType" THEN Chars_None
    ELSE IF x.t = "str" THEN <<"'">> \o x.s \o <<"'">>
    ELSE IF x.t = "list"
    THEN <<"[">> \o JoinS([i \in 1 .. Len(x.l) |-> Repr(x.l[i])], <<",", " ">>) \o <<"]">>
    ELSE <<"{">> \o JoinS([i \in 1 .. Len(x.d) |->
                              Repr(x.d[i][1]) \o <<":", " ">> \o Repr(x.d[i][2])],
                          <<",", " ">>) \o <<"}">>

\* str(x)
StrOf(x) == IF x.t = "str" THEN x.s ELSE Repr(x)

\* bool(x)
Truthy(x) ==
    IF x.t \in {"int", "bool"} THEN x.n # 0
    ELSE IF x.t = "str" THEN x.s # <<>>
    ELSE IF x.t = "list" THEN x.l # <<>>
    ELSE IF x.t = "dict" THEN x.d # <<>>
    ELSE FALSE

\* d[k] = v on the items of a dict
DictPut(items, k, v) ==
    IF \E i \in 1 .. Len(items) : items[i][1] = k
    THEN [i \in 1 .. Len(items) |-> IF items[i][1] = k THEN <<k, v>> ELSE items[i]]
    ELSE Append(items, <<k, v>>)

\* del d[k] on the items of a dict
RECURSIVE DictDel(_, _)
DictDel(items, k) ==
    IF items = <<>> THEN <<>>
    ELSE IF Head(items)[1] = k THEN Tail(items)
    ELSE <<Head(items)>> \o DictDel(Tail(items), k)

DictHas(items, k) == \E i \in 1 .. Len(items) : items[i][1] = k
DictGet(items, k) == items[CHOOSE i \in 1 .. Len(items) : items[i][1] = k][2]

\* The first position from i on in s that holds no blank
RECURSIVE SkipWs(_, _)
SkipWs(s, i) == IF i <= Len(s) /\ s[i] = " " THEN SkipWs(s, i + 1) ELSE i

\* The first position from i on in s that holds no digit
RECURSIVE SkipDigits(_, _)
SkipDigits(s, i) == IF i <= Len(s) /\ IsDigitChar(s[i]) THEN SkipDigits(s, i + 1) ELSE i

Parsed(v, i) == [ok |-> TRUE, v |-> v, i |-> i]
NotParsed == [ok |-> FALSE, v |-> <<>>, i |-> 0]

\* s continues with the word w at position j
WordAt(s, j, w) ==
    j + Len(w) - 1 <= Len(s) /\ SubSeq(s, j, j + Len(w) - 1) = w

\* The literal that starts at position i of s, and the position after it
RECURSIVE ParseValue(_, _)
RECURSIVE ParseItems(_, _, _)
RECURSIVE ParsePairs(_, _, _)
ParseValue(s, i) ==
    LET j == SkipWs(s, i)
    IN  IF j > Len(s) THEN NotParsed
        ELSE IF s[j] = "'"
        THEN LET k == FirstIndex(SubSeq(s, j + 1, Len(s)), "'")
             IN  IF k = 0 THEN NotParsed
                 ELSE Parsed(PyStr(SubSeq(s, j + 1, j + k - 1)), j + k + 1)
        ELSE IF IsDigitChar(s[j])
        THEN LET k == SkipDigits(s, j)
             IN  Parsed(PyInt(DigitsToNat(SubSeq(s, j, k - 1))), k)
        ELSE IF s[j] = "-" /\ SkipDigits(s, j + 1) > j + 1
        THEN LET k == SkipDigits(s, j + 1)
             IN  Parsed(PyInt(-DigitsToNat(SubSeq(s, j + 1, k - 1))), k)
        ELSE IF WordAt(s, j, Chars_True) THEN Parsed(PyBool(TRUE), j + 4)
        ELSE IF WordAt(s, j, Chars_False) THEN Parsed(PyBool(FALSE), j + 5)
        ELSE IF WordAt(s, j, Chars_None) THEN Parsed(PyNone, j + 4)
        ELSE IF s[j] = "[" THEN ParseItems(s, j + 1, <<>>)
        ELSE IF s[j] = "{" THEN ParsePairs(s, j + 1, <<>>)
        ELSE NotParsed

ParseItems(s, i, acc) ==
    LET j == SkipWs(s, i)
    IN  IF j > Len(s) THEN NotParsed
        ELSE IF s[j] = "]" THEN Parsed(PyList(acc), j + 1)
        ELSE LET r == ParseValue(s, j)
                 k == SkipWs(s, r.i)
             IN  IF ~r.ok \/ k > Len(s) THEN NotParsed
                 ELSE IF s[k] = "," THEN ParseItems(s, k + 1, Append(acc, r.v))
                 ELSE IF s[k] = "]" THEN Parsed(PyList(Append(acc, r.v)), k + 1)
                 ELSE NotParsed

ParsePairs(s, i, acc) ==
    LET j == SkipWs(s, i)
    IN  IF j > Len(s) THEN NotParsed
        ELSE IF s[j] = "}" THEN Parsed(PyDict(acc), j + 1)
        ELSE LET key == ParseValue(s, j)
                 c == SkipWs(s, key.i)
             IN  IF ~key.ok \/ c > Len(s) \/ key.v.t \in {"list", "dict"} THEN NotParsed
                 ELSE IF s[c] # ":" THEN NotParsed
                 ELSE LET r == ParseValue(s, c + 1)
                          k == SkipWs(s, r.i)
                      IN  IF ~r.ok \/ k > Len(s) THEN NotParsed
                          ELSE IF s[k] = ","
                          THEN ParsePairs(s, k + 1, DictPut(acc, key.v, r.v))
                          ELSE IF s[k] = "}"
                          THEN Parsed(PyDict(DictPut(acc, key.v, r.v)), k + 1)
                          ELSE NotParsed

\* eval(s) of a literal; any other text is a SyntaxError
Whole(s, r) ==
    IF r.ok /\ SkipWs(s, r.i) > Len(s) THEN Ok(r.v) ELSE Raise("SyntaxError")

PyEval(s) == Whole(s, ParseValue(s, 1))

\* a < b for characters and for strings, in code point order
CodeOrder == <<" ", "'", "+", ",", "-", ".", "/">> \o DigitChars \o <<":", "=">>
             \o UpperChars \o <<"[", "]", "_">> \o LowerChars \o <<"{", "}">>
Ord(c) == CHOOSE i \in 1 .. Len(CodeOrder) : CodeOrder[i] = c
RECURSIVE StrLess(_, _)
StrLess(a, b) ==
    IF b = <<>> THEN FALSE
    ELSE IF a = <<>> THEN TRUE
    ELSE IF a[1] # b[1] THEN Ord(a[1]) < Ord(b[1])
    ELSE StrLess(Tail(a), Tail(b))

\* l.sort() of a list of str values: insertion keeps equal members in order
RECURSIVE SortStrs(_)
SortInsert(l, x) ==
    LET before == {i \in 1 .. Len(l) : ~StrLess(x.s, l[i].s)}
        n == IF before = {} THEN 0
             ELSE CHOOSE i \in before : \A j \in before : j <= i
    IN  SubSeq(l, 1, n) \o <<x>> \o SubSeq(l, n + 1, Len(l))
SortStrs(l) ==
    IF l = <<>> THEN <<>>
    ELSE SortInsert(SortStrs(SubSeq(l, 1, Len(l) - 1)), l[Len(l)])

(***************************************************************************)
(* choicesList, lines 264-344.  choices is the list (or the dict, in its   *)
(* order) the selector was given: an item is a plain value, a              *)
(* (value, description) tuple, or a key with its description.  A result is *)
(* [err, v]: err names the exception the call raised, if any.              *)
(***************************************************************************)
LIST_TYPE_LIST == 1
LIST_TYPE_DICT == 2


Plain(x) == [tuple |-> FALSE, v |-> x, d |-> x]
Tuple(x, d) == [tuple |-> TRUE, v |-> x, d |-> d]

\* choicesList.__init__
choicesList(choices, type) == [type |-> type, choices |-> choices]

\* not isinstance(x, tuple) and x or x[0]
ListItem(x) ==
    IF x.tuple \/ Truthy(x.v) THEN Ok(x.v)
    ELSE IF x.v.t = "int" THEN Raise("TypeError") ELSE Raise("IndexError")

\* [f(x) for x in items] where f may raise: the first exception, or the list
MapItems(items) ==
    LET rs == [i \in 1 .. Len(items) |-> ListItem(items[i])]
        bad == {i \in 1 .. Len(items) : rs[i].err # "none"}
    IN  IF bad = {} THEN Ok([i \in 1 .. Len(items) |-> rs[i].v])
        ELSE Raise(rs[CHOOSE i \in bad : \A j \in bad : i <= j].err)

Keys(items) == [i \in 1 .. Len(items) |-> items[i].v]

OrEmptyString(l) == IF l = <<>> THEN <<PyStr(<<>>)>> ELSE l

\* ret or [""], where building ret may have raised
OrEmpty(ret) == IF ret.err # "none" THEN ret ELSE Ok(OrEmptyString(ret.v))

\* choicesList.__list__; on Python 3 the dict branch never assigns ret
choices_list(c, py2) ==
    IF c.type = LIST_TYPE_LIST THEN OrEmpty(MapItems(c.choices))
    ELSE IF py2 THEN Ok(OrEmptyString(Keys(c.choices)))
    ELSE Raise("UnboundLocalError")

\* choicesList.__iter__
choices_iter(c) ==
    IF c.type = LIST_TYPE_LIST THEN OrEmpty(MapItems(c.choices))
    ELSE Ok(OrEmptyString(Keys(c.choices)))

\* choicesList.__len__
choices_len(c) == IF Len(c.choices) = 0 THEN 1 ELSE Len(c.choices)

\* choicesList.__getitem__; index counts from 0
choices_getitem(c, index) ==
    IF index = 0 /\ c.choices = <<>> THEN Ok(PyStr(<<>>))
    ELSE IF index < -Len(c.choices) \/ index >= Len(c.choices)
    THEN Raise("IndexError")
    ELSE Ok(c.choices[(IF index < 0 THEN index + Len(c.choices) ELSE index) + 1].v)

\* l.index(x): the first position (from 0) of x in l, -1 if there is none
IndexOf(l, x) ==
    IF \E i \in 1 .. Len(l) : l[i] = x
    THEN (CHOOSE i \in 1 .. Len(l) : l[i] = x /\ \A j \in 1 .. i - 1 : l[j] # x) - 1
    ELSE -1

\* The body of choicesList.index, l being the outcome of self.__list__():
\* Python 2 compares str() of both sides and turns ValueError and IndexError
\* into 0, Python 3 is list.index
IndexIn(l, value, py2) ==
    IF py2
    THEN IF l.err = "IndexError" THEN Ok(0)
         ELSE IF l.err # "none" THEN l
         ELSE LET i == IndexOf([k \in 1 .. Len(l.v) |-> StrOf(l.v[k])], StrOf(value))
              IN  IF i < 0 THEN Ok(0) ELSE Ok(i)
    ELSE IF l.err # "none" THEN l
         ELSE LET i == IndexOf(l.v, value)
              IN  IF i < 0 THEN Raise("ValueError") ELSE Ok(i)

\* choicesList.index
choices_index(c, value, py2) == IndexIn(choices_list(c, py2), value, py2)

\* choicesList.default
choices_default(c) ==
    IF c.choices = <<>> THEN PyStr(<<>>) ELSE c.choices[1].v

(***************************************************************************)
(* ConfigSelection, lines 742-843.                                         *)
(***************************************************************************)

\* ConfigSelection.__init__
ConfigSelection(choices, type, default) ==
    LET c == choicesList(choices, type)
        d == IF default = PyNone THEN choices_default(c) ELSE default
    IN  [cls |-> "ConfigSelection", choices |-> c,
         value |-> d, lastValue |-> d, default |-> d] @@ ConfigElement

\* self._value = self.choices[idx]; self.changed(), idx being the outcome of
\* self.choices.index(value)
SelAssign(e, idx) ==
    IF idx.err # "none" THEN [e EXCEPT !.err = idx.err]
    ELSE LET item == choices_getitem(e.choices, idx.v)
         IN  IF item.err # "none" THEN [e EXCEPT !.err = item.err]
             ELSE changed([e EXCEPT !.value = item.v])

\* The body of ConfigSelection.setValue, it being the outcome of iterating
\* self.choices
SelSetValueIn(e, it, value, py2) ==
    IF it.err # "none" THEN [e EXCEPT !.err = it.err]
    ELSE IF \E i \in 1 .. Len(it.v) : StrOf(it.v[i]) = StrOf(value)
    THEN SelAssign(e, choices_index(e.choices, value, py2))
    ELSE changed([e EXCEPT !.value = e.default])

\* ConfigSelection.setValue
SelSetValue(e, value, py2) == SelSetValueIn(e, choices_iter(e.choices), value, py2)

\* self.value = item, item being the outcome of self.choices[i]
SelSetItem(e, item, py2) ==
    IF item.err # "none" THEN [e EXCEPT !.err = item.err]
    ELSE SelSetValue(e, item.v, py2)

\* self.value = self.choices[i]
SelSetChoice(e, i, py2) == SelSetItem(e, choices_getitem(e.choices, i), py2)

\* self.value = self.choices[idx], idx being the outcome of
\* self.choices.index(...)
SelSetIndexed(e, idx, py2) ==
    IF idx.err # "none" THEN [e EXCEPT !.err = idx.err]
    ELSE SelSetChoice(e, idx.v, py2)

\* ConfigSelection.load
SelLoad(e, py2) ==
    IF e.saved_value.t = "none" THEN SelSetValue(e, e.default, py2)
    ELSE SelSetIndexed(e, choices_index(e.choices, PyStr(e.saved_value.v), py2), py2)

\* The index ConfigSelection.handleKey selects from index i of nchoices
\* choices; -1 for a key it ignores
SelTarget(key, i, nchoices) ==
    IF key = ACTIONKEY_LEFT THEN (i + nchoices - 1) % nchoices
    ELSE IF key = ACTIONKEY_RIGHT THEN (i + 1) % nchoices
    ELSE IF key = ACTIONKEY_FIRST THEN 0
    ELSE IF key = ACTIONKEY_LAST THEN nchoices - 1
    ELSE -1

\* The body of ConfigSelection.handleKey, i being the outcome of
\* self.choices.index(self._value)
SelHandleKeyAt(e, key, i, nchoices, py2) ==
    IF i.err # "none" THEN [e EXCEPT !.err = i.err]
    ELSE IF SelTarget(key, i.v, nchoices) < 0 THEN e
    ELSE SelSetChoice(e, SelTarget(key, i.v, nchoices), py2)

\* ConfigSelection.handleKey
SelHandleKey(e, key, py2) ==
    IF choices_len(e.choices) > 1
    THEN SelHandleKeyAt(e, key, choices_index(e.choices, e.value, py2),
                        choices_len(e.choices), py2)
    ELSE e

(***************************************************************************)
(* ConfigBoolean (lines 402-445), ConfigDateTime (465-487), ConfigSlider   *)
(* (1477-1516), ConfigText (1521-1532, 1674-1694) and ConfigInteger        *)
(* (1262-1282).                                                            *)
(***************************************************************************)
trueValues == { <<"1">>, <<"e", "n", "a", "b", "l", "e">>, <<"o", "n">>,
                <<"t", "r", "u", "e">>, <<"y", "e", "s">> }

\* ConfigBoolean.__init__
ConfigBoolean(default) ==
    [cls |-> "ConfigBoolean", value |-> PyBool(default), lastValue |-> PyBool(default),
     default |-> PyBool(default)] @@ ConfigElement

\* ConfigDateTime.__init__
ConfigDateTime(default, incr) ==
    [cls |-> "ConfigDateTime", value |-> default, lastValue |-> default,
     default |-> default, increment |-> incr] @@ ConfigElement

\* ConfigSlider.__init__
ConfigSlider(default, incr, limits) ==
    [cls |-> "ConfigSlider", value |-> default, lastValue |-> default,
     default |-> default, min |-> limits[1], max |-> limits[2],
     increment |-> incr] @@ ConfigElement

\* ConfigText.__init__; value is the text
ConfigText(default) ==
    [cls |-> "ConfigText", value |-> default, lastValue |-> default,
     default |-> default] @@ ConfigElement

\* ConfigInteger.__init__: a ConfigSequence of one field; default is an int
\* and _value the list [default]
ConfigInteger(default, limits) ==
    [ConfigSequence("ConfigInteger", ":", <<limits>>, default)
        EXCEPT !.value = <<default>>, !.lastIsDefault = FALSE]
    @@ [lastIsInt |-> TRUE]

\* ConfigNumber.__init__: the text is str(default), and so is self.default.
\* The text holds ASCII only, which the UTF-8 steps of ConfigText.getValue
\* and setValue on Python 2 leave as it is.
ConfigNumber(default) ==
    [cls |-> "ConfigNumber", value |-> IntToStr(default),
     lastValue |-> PyStr(IntToStr(default)),
     default |-> PyStr(IntToStr(default))] @@ ConfigElement

\* ConfigSet.__init__: choices and default are sorted in place, the value is
\* a copy of the default and lastValue is the default itself.  The members
\* are str values.
ConfigSet(choices, default) ==
    [cls |-> "ConfigSet",
     choices |-> choicesList([i \in 1 .. Len(choices) |-> Plain(SortStrs(choices)[i])],
                             LIST_TYPE_LIST),
     value |-> SortStrs(default), default |-> SortStrs(default),
     lastValue |-> SortStrs(default),
     valIsDefault |-> FALSE, lastIsDefault |-> TRUE, pos |-> 0] @@ ConfigElement

\* list(x), as iteration over a value that eval() returned sees it
AsList(x) ==
    IF x.t = "list" THEN Ok(x.l)
    ELSE IF x.t = "str" THEN Ok([i \in 1 .. Len(x.s) |-> PyStr(<<x.s[i]>>)])
    ELSE IF x.t = "dict" THEN Ok([i \in 1 .. Len(x.d) |-> x.d[i][1]])
    ELSE Raise("TypeError")

\* list.remove(x): without the first x
RECURSIVE Remove(_, _)
Remove(l, x) ==
    IF l = <<>> THEN <<>>
    ELSE IF Head(l) = x THEN Tail(l)
    ELSE <<Head(l)>> \o Remove(Tail(l), x)

Member(l, x) == \E i \in 1 .. Len(l) : l[i] = x

\* ConfigSet.handleKey
SetHandleKey(e, key) ==
    IF key \in {ACTIONKEY_TOGGLE, ACTIONKEY_SELECT, ACTIONKEY_DELETE, ACTIONKEY_BACKSPACE}
               \cup ACTIONKEY_NUMBERS
    THEN LET choice == choices_getitem(e.choices, e.pos)
         IN  IF choice.err # "none" THEN [e EXCEPT !.err = choice.err]
             ELSE IF Member(e.value, choice.v)
             THEN changed(InPlace(e, Remove(e.value, choice.v)))
             ELSE changed(InPlace(e, SortStrs(Append(e.value, choice.v))))
    ELSE IF key = ACTIONKEY_LEFT
    THEN [e EXCEPT !.pos = IF e.pos > 0 THEN e.pos - 1 ELSE choices_len(e.choices) - 1]
    ELSE IF key = ACTIONKEY_RIGHT
    THEN [e EXCEPT !.pos = IF e.pos < choices_len(e.choices) - 1 THEN e.pos + 1 ELSE 0]
    ELSE IF key = ACTIONKEY_FIRST THEN [e EXCEPT !.pos = 0]
    ELSE IF key = ACTIONKEY_LAST THEN [e EXCEPT !.pos = choices_len(e.choices) - 1]
    ELSE e

\* One entry [path, mountpoint, exists, shown] of ConfigLocations.locations.
\* The set of mounted partitions does not change, so no entry's mountpoint
\* is ever read and it is left out.
Location(path, exists, shown) == [path |-> path, exists |-> exists, shown |-> shown]

\* locations.sort(key=lambda x: x[0])
RECURSIVE SortLocations(_)
InsertLocation(l, x) ==
    LET before == {i \in 1 .. Len(l) : ~StrLess(x.path.s, l[i].path.s)}
        n == IF before = {} THEN 0
             ELSE CHOOSE i \in before : \A j \in before : j <= i
    IN  SubSeq(l, 1, n) \o <<x>> \o SubSeq(l, n + 1, Len(l))
SortLocations(l) ==
    IF l = <<>> THEN <<>>
    ELSE InsertLocation(SortLocations(SubSeq(l, 1, Len(l) - 1)), l[Len(l)])

\* [x for x in l if Keep(x)]
RECURSIVE Filter(_, _)
Filter(l, keep) ==
    IF l = <<>> THEN <<>>
    ELSE (IF Head(l) \in keep THEN <<Head(l)>> ELSE <<>>) \o Filter(Tail(l), keep)

Range(l) == {l[i] : i \in 1 .. Len(l)}

\* ConfigLocations.setValue
LocSetValue(e, value) ==
    LET locations == e.value
        loc == [i \in 1 .. Len(Filter(locations, {x \in Range(locations) : x.shown})) |->
                   Filter(locations, {x \in Range(locations) : x.shown})[i].path]
        add == Filter(value, Range(value) \ Range(loc))
        diff == add \o Filter(loc, Range(loc) \ Range(value))
        kept == Filter(locations, {x \in Range(locations) : x.path \notin Range(diff)})
        new == kept \o [i \in 1 .. Len(add) |-> Location(add[i], TRUE, TRUE)]
    IN  changed([e EXCEPT !.value = SortLocations(new)])

\* ConfigLocations.getValue: what it returns, and the element it leaves
LocGetValue(e) ==
    LET shown == Filter(e.value, {x \in Range(e.value) : x.exists})
    IN  [i \in 1 .. Len(shown) |-> shown[i].path]
LocTouch(e) ==
    [e EXCEPT !.value = [i \in 1 .. Len(e.value) |->
                            [e.value[i] EXCEPT !.shown = e.value[i].exists]]]

\* ConfigLocations.__init__
ConfigLocations(default) ==
    LocSetValue([cls |-> "ConfigLocations", default |-> default, value |-> <<>>,
                 lastValue |-> None, pos |-> -1] @@ ConfigElement, default)

\* The loop of ConfigLocations.load over tmp, l being the outcome of
\* iterating tmp
LocLoadItems(e, l, files) ==
    IF l.err # "none" THEN [e EXCEPT !.err = l.err]
    ELSE [e EXCEPT !.value = [i \in 1 .. Len(l.v) |->
                                 Location(l.v[i], l.v[i] \in files, FALSE)]]

\* ConfigLocations.load, tmp being self.default or the outcome of
\* eval(saved_value)
LocLoadFrom(e, tmp, files) ==
    IF tmp.err # "none" THEN [e EXCEPT !.err = tmp.err]
    ELSE LocLoadItems(e, AsList(tmp.v), files)

\* ConfigLocations.load; files are the paths for which fileExists() holds
LocLoad(e, files) ==
    LocLoadFrom(e, IF e.saved_value.t = "none" THEN Ok(PyList(e.default))
                   ELSE PyEval(e.saved_value.v), files)

\* ConfigLocations.save
LocSave(e) ==
    IF e.save_disabled \/ e.value = <<>> THEN [e EXCEPT !.saved_value = None]
    ELSE [e EXCEPT !.saved_value =
             Str(Repr(PyList([i \in 1 .. Len(e.value) |-> e.value[i].path])))]

\* ConfigLocations.handleKey
LocHandleKey(e, key) ==
    IF key = ACTIONKEY_LEFT
    THEN IF e.pos - 1 < -1
         THEN [LocTouch(e) EXCEPT !.pos = Len(LocGetValue(e)) - 1]
         ELSE [e EXCEPT !.pos = e.pos - 1]
    ELSE IF key = ACTIONKEY_RIGHT
    THEN [LocTouch(e) EXCEPT !.pos = IF e.pos + 1 >= Len(LocGetValue(e)) THEN -1
                                     ELSE e.pos + 1]
    ELSE IF key \in {ACTIONKEY_FIRST, ACTIONKEY_LAST} THEN [e EXCEPT !.pos = -1]
    ELSE e

\* ConfigDictionarySet.__init__: self.value = self.default makes dirs the
\* default dict itself.  value holds self.dirs.
ConfigDictionarySet(default) ==
    [cls |-> "ConfigDictionarySet", default |-> default, value |-> default,
     lastValue |-> None, valIsDefault |-> TRUE, lastIsDefault |-> FALSE] @@ ConfigElement

\* ConfigDictionarySet.changeConfigValue, for str value and config_key
changeConfigValue(e, value, config_key, config_value) ==
    IF e.value.t # "dict" THEN [e EXCEPT !.err = "TypeError"]
    ELSE changed(InPlace(e, PyDict(
        IF DictHas(e.value.d, value)
        THEN DictPut(e.value.d, value,
                     PyDict(DictPut(DictGet(e.value.d, value).d, config_key, config_value)))
        ELSE DictPut(e.value.d, value, PyDict(<< <<config_key, config_value>> >>)))))

\* ConfigDictionarySet.removeConfigValue, for str value and config_key
removeConfigValue(e, value, config_key) ==
    IF e.value.t # "dict" THEN [e EXCEPT !.err = "TypeError"]
    ELSE IF DictHas(e.value.d, value) /\ DictHas(DictGet(e.value.d, value).d, config_key)
    THEN changed(InPlace(e, PyDict(DictPut(e.value.d, value,
                     PyDict(DictDel(DictGet(e.value.d, value).d, config_key))))))
    ELSE e

\* ConfigDictionarySet.save: each empty entry is deleted, with changed()
\* called after each deletion
RECURSIVE DropEmpty(_, _)
DropEmpty(e, del_keys) ==
    IF del_keys = <<>> THEN e
    ELSE DropEmpty(changed(InPlace(e, PyDict(DictDel(e.value.d, Head(del_keys))))),
                   Tail(del_keys))
DictSave(e) ==
    LET empty == Filter(e.value.d, {x \in Range(e.value.d) : ~Truthy(x[2])})
        dropped == DropEmpty(e, [i \in 1 .. Len(empty) |-> empty[i][1]])
    IN  IF \/ e.value.t \in {"int", "NoneType"}
           \/ e.value.t \in {"str", "list"} /\ Truthy(e.value)
           \/ \E x \in Range(e.value.d) : x[2].t \in {"int", "NoneType"}
        THEN [e EXCEPT !.err = "TypeError"]
        ELSE [dropped EXCEPT !.saved_value = Str(Repr(dropped.value))]

\* ConfigDictionarySet.load of a saved value, tmp being the outcome of
\* eval(saved_value)
DictLoadFrom(e, tmp) ==
    IF tmp.err # "none" THEN [e EXCEPT !.err = tmp.err]
    ELSE [e EXCEPT !.value = tmp.v, !.valIsDefault = FALSE]

\* ConfigDictionarySet.load
DictLoad(e) ==
    IF e.saved_value.t = "none"
    THEN [e EXCEPT !.value = e.default, !.valIsDefault = TRUE]
    ELSE DictLoadFrom(e, PyEval(e.saved_value.v))

SequenceClasses == {"ConfigSequence", "ConfigIP", "ConfigCECAddress", "ConfigClock"}

\* ConfigNumber.getValue: int(self.text), with its fallback for a text that
\* is no number
NumberText(e) ==
    IF ParseInt(e.value).ok THEN e.value
    ELSE IF Lower(e.value) = <<"t", "r", "u", "e">> THEN <<"1">>
    ELSE e.default.s

\* The property value: getValue of the class of e
getValue(e) ==
    IF e.cls = "ConfigInteger" THEN e.value[1]
    ELSE IF e.cls = "ConfigNumber" THEN PyInt(ParseInt(NumberText(e)).v)
    ELSE IF e.cls = "ConfigLocations" THEN LocGetValue(e)
    ELSE e.value

\* tostring of the class of e
tostring(e, v) ==
    IF e.cls = "ConfigBoolean"
    THEN IF Truthy(v) /\ Lower(StrOf(v)) \in trueValues THEN Chars_True ELSE Chars_False
    ELSE IF e.cls \in {"ConfigSelection", "ConfigNumber"} THEN StrOf(v)
    ELSE IF e.cls \in SequenceClasses
    THEN Join([i \in 1 .. Len(v) |-> IntToStr(v[i])], e.seperator)
    ELSE IF e.cls = "ConfigText" THEN v
    ELSE IF e.cls \in {"ConfigSet", "ConfigLocations"} THEN Repr(PyList(v))
    ELSE IF e.cls = "ConfigDictionarySet" THEN Repr(v)
    ELSE IntToStr(v)

\* [int(x) for x in parts]: the list, or the ValueError of a part
ParseInts(parts) ==
    LET rs == [i \in 1 .. Len(parts) |-> ParseInt(parts[i])]
    IN  IF \A i \in 1 .. Len(parts) : rs[i].ok
        THEN Ok([i \in 1 .. Len(parts) |-> rs[i].v])
        ELSE Raise("ValueError")

\* fromstring with 0 appended for each missing field
PadLimits_Zero(e, ret) ==
    IF ret.err # "none" THEN ret
    ELSE Ok(ret.v \o [i \in 1 .. Len(e.limits) - Len(ret.v) |-> 0])

\* ConfigSequence.fromstring after the split: ret is the outcome of the
\* int() calls; the lower limits of the missing fields are appended
PadLimits(e, ret) ==
    IF ret.err # "none" THEN ret
    ELSE Ok(ret.v \o [i \in 1 .. Len(e.limits) - Len(ret.v) |->
                         e.limits[Len(ret.v) + i][1]])

\* fromstring of the class of e
fromstring(e, s) ==
    IF e.cls = "ConfigBoolean" THEN Ok(PyBool(Lower(s) \in trueValues))
    ELSE IF e.cls \in SequenceClasses
    THEN PadLimits(e, ParseInts(Split(s, e.seperator)))
    ELSE IF e.cls \in {"ConfigText", "ConfigNumber"} THEN Ok(s)
    ELSE IF e.cls \in {"ConfigSet", "ConfigLocations", "ConfigDictionarySet"}
    THEN PyEval(s)
    ELSE LET r == ParseInt(s)
         IN  IF r.ok THEN Ok(r.v) ELSE Raise("ValueError")

\* self.value = v; isDefault says that v is the object self.default itself
setValue(e, v, isDefault, py2) ==
    IF e.cls = "ConfigSelection" THEN SelSetValue(e, v, py2)
    ELSE IF e.cls = "ConfigInteger"
    THEN changed([e EXCEPT !.value = <<v>>, !.valIsDefault = FALSE])
    ELSE IF e.cls \in SequenceClasses \cup {"ConfigSet"}
    THEN changed([e EXCEPT !.value = v, !.valIsDefault = isDefault])
    ELSE IF e.cls = "ConfigText" THEN [e EXCEPT !.value = v]
    ELSE IF e.cls = "ConfigNumber" THEN [e EXCEPT !.value = StrOf(v)]
    ELSE IF e.cls = "ConfigLocations" THEN LocSetValue(e, v)
    ELSE IF e.cls = "ConfigDictionarySet"
    THEN IF v.t = "dict" THEN changed([e EXCEPT !.value = v, !.valIsDefault = isDefault])
         ELSE e
    ELSE changed([e EXCEPT !.value = v])

\* self.value = r, r being self.default or the outcome of self.fromstring
Assign(e, r, isDefault, py2) ==
    IF r.err # "none" THEN [e EXCEPT !.err = r.err]
    ELSE setValue(e, IF e.cls = "ConfigNumber" /\ ~isDefault THEN PyStr(r.v) ELSE r.v,
                  isDefault, py2)

\* ConfigElement.load.  A saved_value that is a dict (the section of a file
\* deployed to an element) reaches ConfigBoolean only, whose fromstring reads
\* str(value).
ElementLoad(e, py2) ==
    Assign(e, IF e.saved_value.t = "none" THEN Ok(e.default)
              ELSE IF e.saved_value.t = "dict"
              THEN fromstring(e, Repr(PyDict(e.saved_value.v)))
              ELSE fromstring(e, e.saved_value.v),
           e.saved_value.t = "none", py2)

\* self.value.sort()
SetSort(e) == InPlace(e, SortStrs(e.value))

\* self.value = list(x); self.value.sort(), l being the outcome of list(x)
SetAsList(e, l, py2) ==
    IF l.err # "none" THEN [e EXCEPT !.err = l.err]
    ELSE SetSort(setValue(e, l.v, FALSE, py2))

\* The statements of ConfigSet.load after ConfigElement.load has assigned x:
\* a false value becomes [], another value that is no list becomes list(x)
SetCoerce(e, x, py2) ==
    IF ~Truthy(x) THEN SetSort(setValue(e, <<>>, FALSE, py2))
    ELSE IF x.t = "list" THEN SetSort(e)
    ELSE SetAsList(e, AsList(x), py2)

\* ConfigSet.load, r being self.default or the outcome of eval(saved_value)
SetLoadFrom(e, r, py2) ==
    IF r.err # "none" THEN [e EXCEPT !.err = r.err]
    ELSE SetCoerce(IF r.v.t = "list"
                   THEN setValue(e, r.v.l, e.saved_value.t = "none", py2)
                   ELSE changed([e EXCEPT !.value = r.v, !.valIsDefault = FALSE]),
                   r.v, py2)

\* ConfigSet.load
SetLoad(e, py2) ==
    SetLoadFrom(e, IF e.saved_value.t = "none" THEN Ok(PyList(e.default))
                   ELSE PyEval(e.saved_value.v), py2)

\* load() of the class of e; files are the paths for which fileExists() holds
load(e, py2, files) ==
    IF e.cls = "ConfigSelection" THEN SelLoad(e, py2)
    ELSE IF e.cls = "ConfigSet" THEN SetLoad(e, py2)
    ELSE IF e.cls = "ConfigDictionarySet" THEN DictLoad(e)
    ELSE IF e.cls = "ConfigLocations" THEN LocLoad(e, files)
    ELSE ElementLoad(e, py2)

\* ConfigElement.save
ElementSave(e) ==
    LET saved == IF e.save_disabled \/ (getValue(e) = e.default /\ ~e.save_forced)
                 THEN [e EXCEPT !.saved_value = None]
                 ELSE [e EXCEPT !.saved_value = Str(tostring(e, getValue(e)))]
    IN  IF e.callNotifiersOnSaveAndCancel THEN changedFinal(saved) ELSE saved

\* save() of the class of e
save(e) ==
    IF e.cls = "ConfigDictionarySet" THEN DictSave(e)
    ELSE IF e.cls = "ConfigLocations" THEN LocSave(e)
    ELSE ElementSave(e)

\* ConfigElement.cancel
cancel(e, py2, files) ==
    LET loaded == load(e, py2, files)
    IN  IF loaded.err # "none" THEN loaded
        ELSE IF e.callNotifiersOnSaveAndCancel THEN changedFinal(loaded)
        ELSE loaded

(***************************************************************************)
(* A ConfigSelection under edit: handleKey, setValue, save and load in any *)
(* order, on either interpreter.                                           *)
(***************************************************************************)
MaxSelOps == 3

Ch(c) == PyStr(<<c>>)

\* choices=[...] and choices={...} as setup code passes them
SelChoices ==
    { [type |-> LIST_TYPE_LIST,
       choices |-> <<Plain(Ch("a")), Plain(Ch("b")), Plain(Ch("c"))>>],
      [type |-> LIST_TYPE_LIST,
       choices |-> <<Tuple(PyInt(1), Ch("p")), Tuple(PyInt(2), Ch("q")),
                     Tuple(Ch("3"), Ch("r"))>>],
      [type |-> LIST_TYPE_DICT,
       choices |-> <<Tuple(Ch("x"), Ch("X")), Tuple(Ch("a"), Ch("A"))>>],
      [type |-> LIST_TYPE_LIST, choices |-> <<Plain(Ch("a"))>>] }

SelDefaults(c) ==
    {PyNone} \cup {c.choices[i].v : i \in 1 .. Len(c.choices)}
             \cup (IF Len(c.choices) = 3 /\ ~c.choices[1].tuple THEN {Ch("z")} ELSE {})

Selectors ==
    UNION { {Watched(ConfigSelection(c.choices, c.type, d)) : d \in SelDefaults(c)} :
            c \in SelChoices }

SelKeys == {ACTIONKEY_LEFT, ACTIONKEY_RIGHT, ACTIONKEY_FIRST, ACTIONKEY_LAST,
            ACTIONKEY_SELECT}
SelInputs == {Ch("a"), Ch("c"), Ch("z"), Ch("x"), PyInt(2), Ch("2")}

SelOp(op, key, v) == [op |-> op, key |-> key, v |-> v]

InitSel ==
    /\ sel \in Selectors
    /\ sel0 = sel
    /\ selprev = sel
    /\ selops = <<>>
    /\ PY2 \in BOOLEAN
    /\ IdleFile
    /\ disk = {}
    /\ IdleSeq /\ IdleEl /\ IdleTree

SelDo(e, op) ==
    /\ Len(selops) < MaxSelOps
    /\ sel' = e
    /\ selprev' = sel
    /\ selops' = Append(selops, op)
    /\ UNCHANGED <<sel0, seqVars, elVars, treeVars, envVars, fileVars>>

SelKey == \E key \in SelKeys :
    SelDo(SelHandleKey(Begin(sel), key, PY2), SelOp("handleKey", key, PyNone))
SelSet == \E v \in SelInputs :
    SelDo(SelSetValue(Begin(sel), v, PY2), SelOp("setValue", 0, v))
SelSave == SelDo(save(Begin(sel)), SelOp("save", 0, PyNone))
SelReload == SelDo(load(Begin(sel), PY2, {}), SelOp("load", 0, PyNone))

NextSel == SelKey \/ SelSet \/ SelSave \/ SelReload

SpecSel == InitSel /\ [][NextSel]_vars

\* The canonical values of the choices of e, in order
ChoiceValues(e) == [i \in 1 .. Len(e.choices.choices) |-> e.choices.choices[i].v]

\* The positions (from 1) of the choices whose str() is str(v)
Matches(e, v) == {i \in 1 .. Len(e.choices.choices) : StrOf(ChoiceValues(e)[i]) = StrOf(v)}

\* The position (from 1) of the choice that is the value of e, 0 if none is
Position(e) ==
    IF \E i \in 1 .. Len(e.choices.choices) : ChoiceValues(e)[i] = e.value
    THEN CHOOSE i \in 1 .. Len(e.choices.choices) : ChoiceValues(e)[i] = e.value
    ELSE 0

LastSelOp == selops[Len(selops)]
Pressed(key) == selops # <<>> /\ LastSelOp.op = "handleKey" /\ LastSelOp.key = key
Rights(n) == [i \in 1 .. n |-> SelOp("handleKey", ACTIONKEY_RIGHT, PyNone)]

\* C8: with n > 1 choices RIGHT moves a selector from its choice to the
\* next one and LEFT to the previous one, both cyclically and without error;
\* n RIGHTs from a choice return to that choice, and LEFT undoes RIGHT.
C8_Wraparound ==
    LET n == Len(sel0.choices.choices)
        i == Position(selprev)
    IN  /\ (n > 1 /\ i > 0 /\ Pressed(ACTIONKEY_RIGHT)) =>
               (sel.err = "none" /\ sel.value = ChoiceValues(sel)[(i % n) + 1])
        /\ (n > 1 /\ i > 0 /\ Pressed(ACTIONKEY_LEFT)) =>
               (sel.err = "none" /\ sel.value = ChoiceValues(sel)[((i + n - 2) % n) + 1])
        /\ (n > 1 /\ Position(sel0) > 0 /\ selops = Rights(n)) =>
               sel.value = sel0.value
        /\ (n > 1 /\ Position(sel0) > 0 /\
            selops = <<SelOp("handleKey", ACTIONKEY_RIGHT, PyNone),
                       SelOp("handleKey", ACTIONKEY_LEFT, PyNone)>>) =>
               sel.value = sel0.value

\* C9: setValue(v) never raises; when str(v) is the str() of a choice the
\* value becomes that choice's own value, otherwise it becomes the default.
C9_SetValue ==
    (selops # <<>> /\ LastSelOp.op = "setValue") =>
        LET m == Matches(sel, LastSelOp.v)
        IN  /\ sel.err = "none"
            /\ m # {} => \E i \in m : sel.value = ChoiceValues(sel)[i]
            /\ m = {} => sel.value = sel.default

(***************************************************************************)
(* handleKey of ConfigBoolean (410-416), ConfigDateTime (472-478) and      *)
(* ConfigSlider (1485-1505), and handleKey of the class of an element.     *)
(***************************************************************************)
BoolHandleKey(e, key) ==
    IF key \in {ACTIONKEY_TOGGLE, ACTIONKEY_SELECT, ACTIONKEY_LEFT, ACTIONKEY_RIGHT}
    THEN changed([e EXCEPT !.value = PyBool(~Truthy(e.value))])
    ELSE IF key = ACTIONKEY_FIRST THEN changed([e EXCEPT !.value = PyBool(FALSE)])
    ELSE IF key = ACTIONKEY_LAST THEN changed([e EXCEPT !.value = PyBool(TRUE)])
    ELSE e

DateTimeHandleKey(e, key) ==
    IF key = ACTIONKEY_LEFT THEN changed([e EXCEPT !.value = e.value - e.increment])
    ELSE IF key = ACTIONKEY_RIGHT THEN changed([e EXCEPT !.value = e.value + e.increment])
    ELSE IF key \in {ACTIONKEY_FIRST, ACTIONKEY_LAST}
    THEN changed([e EXCEPT !.value = e.default])
    ELSE e

\* ConfigSlider.checkValues()
checkValues(e) ==
    LET low == IF e.value < e.min THEN e.min ELSE e.value
        value == IF low > e.max THEN e.max ELSE low
    IN  IF e.value # value THEN changed([e EXCEPT !.value = value]) ELSE e

SliderHandleKey(e, key) ==
    IF key = ACTIONKEY_LEFT
    THEN checkValues(changed([e EXCEPT !.value = e.value - e.increment]))
    ELSE IF key = ACTIONKEY_RIGHT
    THEN checkValues(changed([e EXCEPT !.value = e.value + e.increment]))
    ELSE IF key = ACTIONKEY_FIRST THEN checkValues(changed([e EXCEPT !.value = e.min]))
    ELSE IF key = ACTIONKEY_LAST THEN checkValues(changed([e EXCEPT !.value = e.max]))
    ELSE e

\* handleKey of the class of e
ElemHandleKey(e, key, py2) ==
    IF e.cls = "ConfigBoolean" THEN BoolHandleKey(e, key)
    ELSE IF e.cls = "ConfigDateTime" THEN DateTimeHandleKey(e, key)
    ELSE IF e.cls = "ConfigSlider" THEN SliderHandleKey(e, key)
    ELSE IF e.cls = "ConfigSelection" THEN SelHandleKey(e, key, py2)
    ELSE IF e.cls = "ConfigSet" THEN SetHandleKey(e, key)
    ELSE IF e.cls = "ConfigLocations" THEN LocHandleKey(e, key)
    ELSE handleKey(e, key, 0, FALSE)

(***************************************************************************)
(* An element of any variant under edit: handleKey, setValue, save, load   *)
(* and the two ConfigDictionarySet updates, in any order.                  *)
(***************************************************************************)
MaxElemOps == 2

PathA == PyStr(<<"/", "a">>)
PathB == PyStr(<<"/", "b">>)

\* Elements as setup code constructs them
NumVariants == 18
Variant(i) ==
    CASE i = 1 -> ConfigBoolean(FALSE)
      [] i = 2 -> ConfigBoolean(TRUE)
      [] i = 3 -> ConfigDateTime(1000, 100)
      [] i = 4 -> ConfigSlider(95, 10, <<0, 100>>)
      [] i = 5 -> ConfigInteger(5, <<0, 99>>)
      [] i = 6 -> ConfigSequence("ConfigSequence", ".", seq_limits, <<1, 1>>)
      [] i = 7 -> ConfigIP(<<192, 168, 1, 255>>, FALSE)
      [] i = 8 -> ConfigClock(<<12, 30>>)
      [] i = 9 -> ConfigSelection(<<Plain(Ch("a")), Plain(Ch("b")), Plain(Ch("c"))>>,
                                  LIST_TYPE_LIST, PyNone)
      [] i = 10 -> ConfigSelection(<<Tuple(PyInt(1), Ch("p")), Tuple(PyInt(2), Ch("q"))>>,
                                   LIST_TYPE_LIST, PyNone)
      [] i = 11 -> ConfigSelection(<<Tuple(Ch("x"), Ch("X")), Tuple(Ch("a"), Ch("A"))>>,
                                   LIST_TYPE_DICT, PyNone)
      [] i = 12 -> ConfigNumber(0)
      [] i = 13 -> ConfigText(<<"h", "i">>)
      [] i = 14 -> ConfigSet(<<Ch("c"), Ch("a"), Ch("b")>>, <<Ch("b")>>)
      [] i = 15 -> ConfigSet(<<Ch("a"), Ch("b")>>, <<>>)
      [] i = 16 -> ConfigLocations(<<>>)
      [] i = 17 -> ConfigLocations(<<PathA>>)
      [] OTHER -> ConfigDictionarySet(PyDict(<<>>))

\* save_forced and save_disabled are set from outside, at setup
Element(i, forced, disabled) ==
    Watched([Variant(i) EXCEPT !.save_forced = forced, !.save_disabled = disabled])

ElemKeys == {ACTIONKEY_LEFT, ACTIONKEY_RIGHT, ACTIONKEY_FIRST, ACTIONKEY_LAST,
             ACTIONKEY_TOGGLE, ACTIONKEY_0 + 7}
KeyClasses == {"ConfigBoolean", "ConfigDateTime", "ConfigSlider", "ConfigSelection",
               "ConfigSet", "ConfigLocations", "ConfigInteger"} \cup SequenceClasses

\* Values that callers assign to an element of the class of e
ElemInputs(e) ==
    IF e.cls = "ConfigBoolean" THEN {PyBool(FALSE), PyBool(TRUE)}
    ELSE IF e.cls \in {"ConfigDateTime", "ConfigSlider", "ConfigInteger"} THEN {5, 50}
    ELSE IF e.cls \in SequenceClasses THEN {e.default, [i \in 1 .. Len(e.limits) |-> 2]}
    ELSE IF e.cls = "ConfigSelection" THEN {Ch("a"), PyInt(2), Ch("2")}
    ELSE IF e.cls = "ConfigNumber" THEN {PyInt(0), PyInt(42)}
    ELSE IF e.cls = "ConfigText" THEN {<<>>, <<"h", "i">>, <<"a", " ", "b">>}
    ELSE IF e.cls = "ConfigSet" THEN {<<>>, <<Ch("a"), Ch("b")>>}
    ELSE IF e.cls = "ConfigLocations" THEN {<<>>, <<PathA>>, <<PathB, PathA>>}
    ELSE {PyDict(<<>>), PyDict(<< <<Ch("a"), PyDict(<< <<Ch("k"), PyInt(1)>> >>)>> >>)}

ElemOp(op, key, v) == [op |-> op, key |-> key, v |-> v]

InitElem ==
    /\ \E i \in 1 .. NumVariants, forced \in BOOLEAN, disabled \in BOOLEAN :
           el = Element(i, forced, disabled)
    /\ elprev = el
    /\ elops = <<>>
    /\ PY2 \in BOOLEAN
    /\ IdleFile
    /\ disk \in {{PathA}, {PathA, PathB}}
    /\ IdleSeq /\ IdleSel /\ IdleTree

ElemDo(e, op) ==
    /\ Len(elops) < MaxElemOps
    /\ el' = e
    /\ elprev' = el
    /\ elops' = Append(elops, op)
    /\ UNCHANGED <<seqVars, selVars, treeVars, envVars, fileVars>>

ElemKey == \E key \in ElemKeys :
    /\ el.cls \in KeyClasses
    /\ ElemDo(ElemHandleKey(Begin(el), key, PY2), ElemOp("handleKey", key, 0))
ElemSet == \E v \in ElemInputs(el) :
    ElemDo(setValue(Begin(el), v, FALSE, PY2), ElemOp("setValue", 0, 0))
ElemSave == ElemDo(save(Begin(el)), ElemOp("save", 0, 0))
ElemLoad == ElemDo(load(Begin(el), PY2, disk), ElemOp("load", 0, 0))
ElemChange == \E value \in {Ch("a"), Ch("b")}, config_value \in {PyInt(1), PyInt(2)} :
    /\ el.cls = "ConfigDictionarySet"
    /\ ElemDo(changeConfigValue(Begin(el), value, Ch("k"), config_value),
              ElemOp("changeConfigValue", 0, 0))
ElemRemove == \E value \in {Ch("a"), Ch("b")} :
    /\ el.cls = "ConfigDictionarySet"
    /\ ElemDo(removeConfigValue(Begin(el), value, Ch("k")),
              ElemOp("removeConfigValue", 0, 0))

NextElem == ElemKey \/ ElemSet \/ ElemSave \/ ElemLoad \/ ElemChange \/ ElemRemove

SpecElem == InitElem /\ [][NextElem]_vars

LastElemOp == elops[Len(elops)]

\* C3: after save() the saved form of an element of any variant is absent
\* exactly when saving is disabled or the value equals the default and
\* save_forced is not set.
C3_Omission ==
    (elops # <<>> /\ LastElemOp.op = "save" /\ el.err = "none") =>
        (el.saved_value = None <=>
            (el.save_disabled \/ (getValue(el) = el.default /\ ~el.save_forced)))

\* C4: for an element of any variant, in every state that construction and
\* edits reach, load() of the string that tostring gives for the value
\* yields that value again.
C4_RoundTrip ==
    LET encoded == Str(tostring(el, getValue(el)))
        decoded == load([Begin(el) EXCEPT !.saved_value = encoded], PY2, disk)
    IN  decoded.err = "none" /\ getValue(decoded) = getValue(el)

(***************************************************************************)
(* onSelect and onDeselect: ConfigElement (lines 177-183), ConfigSequence  *)
(* (1047-1054), ConfigSet (1466-1470), ConfigText (1697-1714) and          *)
(* ConfigLocations (710-711).  No onSelect assigns lastValue: it is what   *)
(* __init__ or the last onDeselect left.  A ConfigInteger starts with the  *)
(* int default as lastValue (lastIsInt) and compares it with the list      *)
(* _value.                                                                 *)
(***************************************************************************)

\* onSelect of the class of e: no field of the model is written
onSelect(e) == e

\* self.lastValue != self.value, resp. self.lastValue != self._value
LastDiffers(e) ==
    IF e.cls = "ConfigInteger" THEN e.lastIsInt \/ e.lastValue # e.value
    ELSE IF e.cls = "ConfigDictionarySet"
    THEN e.lastValue.t = "none" \/ e.lastValue # e.value
    ELSE IF e.cls = "ConfigNumber" THEN e.lastValue # getValue(e)
    ELSE e.lastValue # e.value

\* onDeselect of the class of e
onDeselect(e) ==
    IF e.cls = "ConfigLocations" THEN [e EXCEPT !.pos = -1]
    ELSE IF ~LastDiffers(e) THEN e
    ELSE IF e.cls = "ConfigInteger"
    THEN [changedFinal(e) EXCEPT !.lastValue = e.value, !.lastIsInt = FALSE]
    ELSE IF e.cls \in SequenceClasses \cup {"ConfigSet"}
    THEN [changedFinal(e) EXCEPT !.lastValue = e.value, !.lastIsDefault = FALSE]
    ELSE IF e.cls = "ConfigText"
    THEN [changedFinal(e) EXCEPT !.lastValue = e.value]
    ELSE changedFinal([e EXCEPT !.lastValue = getValue(e)])

(***************************************************************************)
(* An element of any variant in a list of a screen: it holds an immediate  *)
(* and a final notifier, its saved_value is what the settings file gave,   *)
(* and it is loaded, assigned, selected, edited with keys and deselected.  *)
(***************************************************************************)
MaxFocusOps == 3

FocusKeys == {ACTIONKEY_RIGHT, ACTIONKEY_TOGGLE, ACTIONKEY_0 + 7}

Focusable(e) ==
    Begin(addNotifier(addNotifier(e, "n1", FALSE, TRUE, "None"),
                      "f1", FALSE, FALSE, "None"))

InitFocus ==
    /\ \E i \in 1 .. NumVariants :
         \E sv \in {None} \cup {Str(tostring(Variant(i), v)) : v \in ElemInputs(Variant(i))} :
             el = [Focusable(Variant(i)) EXCEPT !.saved_value = sv]
    /\ elprev = el
    /\ elops = <<>>
    /\ PY2 \in BOOLEAN
    /\ IdleFile
    /\ disk = {PathA, PathB}
    /\ IdleSeq /\ IdleSel /\ IdleTree

\* The entry of the last onSelect, and whether the element is selected
LastSelect ==
    LET at == {k \in 1 .. Len(elops) : elops[k].op = "onSelect"}
    IN  IF at = {} THEN 0 ELSE CHOOSE k \in at : \A j \in at : j <= k
Selected ==
    LastSelect > 0 /\ \A k \in LastSelect .. Len(elops) : elops[k].op # "onDeselect"

FocusDo(e, op) ==
    /\ Len(elops) < MaxFocusOps
    /\ el' = e
    /\ elprev' = el
    /\ elops' = Append(elops, op)
    /\ UNCHANGED <<seqVars, selVars, treeVars, envVars, fileVars>>

FocusLoad == FocusDo(load(Begin(el), PY2, disk), ElemOp("load", 0, 0))
FocusSet == \E v \in ElemInputs(el) :
    FocusDo(setValue(Begin(el), v, FALSE, PY2), ElemOp("setValue", 0, 0))
FocusSelect ==
    /\ ~Selected
    /\ FocusDo(onSelect(Begin(el)), ElemOp("onSelect", 0, getValue(el)))
FocusKey == \E key \in FocusKeys :
    /\ Selected
    /\ el.cls \in KeyClasses
    /\ FocusDo(ElemHandleKey(Begin(el), key, PY2), ElemOp("handleKey", key, 0))
FocusDeselect ==
    /\ Selected
    /\ FocusDo(onDeselect(Begin(el)), ElemOp("onDeselect", 0, 0))

NextFocus == FocusLoad \/ FocusSet \/ FocusSelect \/ FocusKey \/ FocusDeselect

SpecFocus == InitFocus /\ [][NextFocus]_vars

\* A final notifier ran in the last call
FinalFired == \E i \in 1 .. Len(el.fired) : el.fired[i].cb = "f1"

\* C12: onDeselect fires the final notifiers exactly when the value at
\* deselection differs from the value the element had at the preceding
\* onSelect; a select and a deselect with no edit in between fire none.
C12_FinalOnChange ==
    (elops # <<>> /\ LastElemOp.op = "onDeselect" /\ el.err = "none") =>
        (FinalFired <=> getValue(el) # elops[LastSelect].v)

(***************************************************************************)
(* ConfigElement.removeNotifier (lines 227-238), clearNotifiers (240-242)  *)
(* and __removeExtraArgs (253-256).                                        *)
(***************************************************************************)

\* notifier in l and l.remove(notifier) on the list that the property
\* returns: the property makes None a list, a dict holds no notifier
RemoveFrom(l, notifier) ==
    IF l.t = "none" THEN ListOf(<<>>)
    ELSE IF l.t = "dict" THEN l
    ELSE ListOf(Remove(l.v, notifier))

\* ConfigElement.__removeExtraArgs: i runs over range(len(self.extra_args))
\* of the list as it was at the start, while del shortens the list
RECURSIVE removeExtraArgs(_, _, _, _)
removeExtraArgs(args, i, n, notifier) ==
    IF i >= n THEN [err |-> "none", v |-> args]
    ELSE IF i >= Len(args) THEN [err |-> "IndexError", v |-> args]
    ELSE IF args[i + 1][1] = notifier
    THEN removeExtraArgs(SubSeq(args, 1, i) \o SubSeq(args, i + 2, Len(args)),
                         i + 1, n, notifier)
    ELSE removeExtraArgs(args, i + 1, n, notifier)

\* The end of removeNotifier, r being the outcome of __removeExtraArgs; the
\* two del statements raise and are passed over
RemovedArgs(e, r) == [e EXCEPT !.extra_args = r.v, !.err = r.err]

\* ConfigElement.removeNotifier
removeNotifier(e, notifier) ==
    RemovedArgs([e EXCEPT !.notifiers = RemoveFrom(@, notifier),
                          !.notifiers_final = RemoveFrom(@, notifier)],
                removeExtraArgs(e.extra_args, 0, Len(e.extra_args), notifier))

\* ConfigElement.clearNotifiers
clearNotifiers(e) ==
    [e EXCEPT !.notifiers = [t |-> "dict", v |-> <<>>],
              !.notifiers_final = [t |-> "dict", v |-> <<>>]]

(***************************************************************************)
(* An element and the callers that register and remove notifiers on it     *)
(* while its value is assigned and edited.  A context is None, truthy      *)
(* ("ctx") or falsy ("empty").                                             *)
(***************************************************************************)
MaxNotifyOps == 3

Callbacks == {"n1", "n2"}
Contexts == {"None", "ctx", "empty"}
NotifyVariants == {1, 5, 13}

NoteOp(op, cb, initial_call, immediate_feedback, extra_args) ==
    [op |-> op, cb |-> cb, initial_call |-> initial_call,
     immediate_feedback |-> immediate_feedback, extra_args |-> extra_args]

InitNotify ==
    /\ \E i \in NotifyVariants : el \in {Begin(Variant(i)), Watched(Variant(i))}
    /\ elprev = el
    /\ elops = <<>>
    /\ PY2 \in BOOLEAN
    /\ IdleFile
    /\ disk = {}
    /\ IdleSeq /\ IdleSel /\ IdleTree

NotifyDo(e, op) ==
    /\ Len(elops) < MaxNotifyOps
    /\ el' = e
    /\ elprev' = el
    /\ elops' = Append(elops, op)
    /\ UNCHANGED <<seqVars, selVars, treeVars, envVars, fileVars>>

AddNotifier ==
    \E cb \in Callbacks, initial_call \in BOOLEAN, immediate_feedback \in BOOLEAN,
       extra_args \in Contexts :
        NotifyDo(addNotifier(Begin(el), cb, initial_call, immediate_feedback, extra_args),
                 NoteOp("addNotifier", cb, initial_call, immediate_feedback, extra_args))
RemoveNotifier == \E cb \in Callbacks :
    NotifyDo(removeNotifier(Begin(el), cb),
             NoteOp("removeNotifier", cb, FALSE, FALSE, "None"))
ClearNotifiers ==
    /\ elops # <<>>
    /\ NotifyDo(clearNotifiers(Begin(el)), NoteOp("clearNotifiers", "", FALSE, FALSE, "None"))
NotifySet == \E v \in ElemInputs(el) :
    NotifyDo(setValue(Begin(el), v, FALSE, PY2), NoteOp("setValue", "", FALSE, FALSE, "None"))
NotifyKey == \E key \in FocusKeys :
    /\ el.cls \in KeyClasses
    /\ NotifyDo(ElemHandleKey(Begin(el), key, PY2),
                NoteOp("handleKey", "", FALSE, FALSE, "None"))

NextNotify == AddNotifier \/ RemoveNotifier \/ ClearNotifiers \/ NotifySet \/ NotifyKey

SpecNotify == InitNotify /\ [][NextNotify]_vars

\* removeNotifier(cb) was called and addNotifier(cb) has not been since
Removed(cb) ==
    \E k \in 1 .. Len(elops) :
        /\ elops[k].op = "removeNotifier" /\ elops[k].cb = cb
        /\ \A j \in k + 1 .. Len(elops) :
               ~(elops[j].op = "addNotifier" /\ elops[j].cb = cb)

\* C13: removeNotifier(cb) completes without error after any sequence of
\* addNotifier and removeNotifier calls; from then on cb is in neither
\* notifier list, has no stored context and is called by no later change.
C13_Removed ==
    \A cb \in Callbacks :
        Removed(cb) =>
            /\ LastElemOp.op = "removeNotifier" => el.err = "none"
            /\ ~Member(el.notifiers.v, cb)
            /\ ~Member(el.notifiers_final.v, cb)
            /\ getExtraArgs(el, cb) = "None"
            /\ \A i \in 1 .. Len(el.fired) : el.fired[i].cb # cb

\* C14: addNotifier(cb, initial_call=True, extra_args=ctx) calls cb exactly
\* once before it returns, with the arguments of the later change
\* notifications of cb, the context included whenever one was supplied;
\* with initial_call=False it calls nothing.
C14_InitialCall ==
    (elops # <<>> /\ LastElemOp.op = "addNotifier") =>
        IF LastElemOp.initial_call
        THEN /\ Len(el.fired) = 1
             /\ el.fired[1].cb = LastElemOp.cb
             /\ el.fired[1].arg = getExtraArgs(el, LastElemOp.cb)
             /\ LastElemOp.extra_args # "None" => el.fired[1].arg = LastElemOp.extra_args
        ELSE el.fired = <<>>

\* C15: a call that changes the value calls the immediate notifiers before
\* it returns, each once, in the order of their registration.
C15_ImmediateOrder ==
    (/\ elops # <<>> /\ LastElemOp.op \in {"setValue", "handleKey"}
     /\ el.err = "none" /\ getValue(el) # getValue(elprev)) =>
        [i \in 1 .. Len(el.fired) |-> el.fired[i].cb] = elprev.notifiers.v

(***************************************************************************)
(* The containers, lines 1927-2071, and the root Config, lines 2081-2143.  *)
(* A container is a record: items are its members in iteration order (the  *)
(* members of a ConfigSubList, the <<key, member>> pairs of a              *)
(* ConfigSubDict and of the content.items of a ConfigSubsection),          *)
(* stored_values the items of its dict of cached saved forms, err the      *)
(* exception the call in progress raised.  A saved form is a str or, for a *)
(* section of the file, a dict of saved forms.  getSavedValue is reached   *)
(* from the root only (pickle), so that a section's dict and the entry its *)
(* parent holds for it are written by the same call.                       *)
(***************************************************************************)
ContainerClasses == {"ConfigSubsection", "ConfigSubList", "ConfigSubDict"}
IsContainer(n) == n.cls \in ContainerClasses

\* ConfigSubList.__init__, ConfigSubDict.__init__, ConfigSubsection.__init__
ConfigSubList ==
    [cls |-> "ConfigSubList", items |-> <<>>, stored_values |-> <<>>, err |-> "none"]
ConfigSubDict ==
    [cls |-> "ConfigSubDict", items |-> <<>>, stored_values |-> <<>>, err |-> "none"]
ConfigSubsection ==
    [cls |-> "ConfigSubsection", items |-> <<>>, stored_values |-> <<>>, err |-> "none"]

\* Member i of a container in iteration order, and str() of its key
Child(c, i) == IF c.cls = "ConfigSubList" THEN c.items[i] ELSE c.items[i][2]
KeyOf(c, i) == IF c.cls = "ConfigSubList" THEN IntToStr(i - 1) ELSE StrOf(c.items[i][1])
PutChild(c, i, n) ==
    [c EXCEPT !.items[i] = IF c.cls = "ConfigSubList" THEN n ELSE <<c.items[i][1], n>>]

\* The position of key among the items of a section or a dict, 0 if absent
ItemIndex(c, key) ==
    IF \E i \in 1 .. Len(c.items) : c.items[i][1] = key
    THEN CHOOSE i \in 1 .. Len(c.items) : c.items[i][1] = key
    ELSE 0

\* The node that a path of positions leads to, and the tree with that node
\* replaced
RECURSIVE Get(_, _)
Get(n, path) == IF path = <<>> THEN n ELSE Get(Child(n, Head(path)), Tail(path))
RECURSIVE Put(_, _, _)
Put(n, path, new) ==
    IF path = <<>> THEN new
    ELSE PutChild(n, Head(path), Put(Child(n, Head(path)), Tail(path), new))

\* The exception of a member is the exception of the call on its container
Quiet(n) == [n EXCEPT !.err = "none"]

\* The saved_value attribute of an element as a value, and back
SavedOf(e) ==
    IF e.saved_value.t = "none" THEN PyNone
    ELSE IF e.saved_value.t = "str" THEN PyStr(e.saved_value.v)
    ELSE PyDict(e.saved_value.v)
AsSaved(x) == IF x.t = "str" THEN Str(x.s) ELSE [t |-> "dict", v |-> x.d]

\* load() of a container: its members in order, up to the first that raises
RECURSIVE ContainerLoad(_, _, _)
RECURSIVE LoadFrom(_, _, _, _)
RECURSIVE LoadNext(_, _, _, _, _)
\* ch is member i after its load()
LoadNext(c, i, ch, py2, files) ==
    IF ch.err # "none" THEN [PutChild(c, i, Quiet(ch)) EXCEPT !.err = ch.err]
    ELSE LoadFrom(PutChild(c, i, ch), i + 1, py2, files)
LoadFrom(c, i, py2, files) ==
    IF i > Len(c.items) THEN c
    ELSE LoadNext(c, i, ContainerLoad(Child(c, i), py2, files), py2, files)
ContainerLoad(n, py2, files) ==
    IF IsContainer(n) THEN LoadFrom(n, 1, py2, files) ELSE load(Begin(n), py2, files)

\* save() of a container
RECURSIVE ContainerSave(_)
RECURSIVE SaveFrom(_, _)
RECURSIVE SaveNext(_, _, _)
\* ch is member i after its save()
SaveNext(c, i, ch) ==
    IF ch.err # "none" THEN [PutChild(c, i, Quiet(ch)) EXCEPT !.err = ch.err]
    ELSE SaveFrom(PutChild(c, i, ch), i + 1)
SaveFrom(c, i) ==
    IF i > Len(c.items) THEN c
    ELSE SaveNext(c, i, ContainerSave(Child(c, i)))
ContainerSave(n) == IF IsContainer(n) THEN SaveFrom(n, 1) ELSE save(Begin(n))

\* getSavedValue of the three containers: [node, sv], the container after
\* the call and the dict returned.  A ConfigSubsection works on its
\* stored_values; a ConfigSubList and a ConfigSubDict start from an empty
\* dict.
RECURSIVE getSavedValue(_)
RECURSIVE SnapshotFrom(_, _, _)
RECURSIVE SnapshotNext(_, _, _, _, _)
\* r is getSavedValue of member i, key its name
SnapshotNext(c, i, res, r, key) ==
    SnapshotFrom(PutChild(c, i, r.node), i + 1,
        IF r.sv.t # "NoneType" THEN DictPut(res, key, r.sv)
        ELSE IF c.cls = "ConfigSubsection" THEN DictDel(res, key)
        ELSE res)
SnapshotFrom(c, i, res) ==
    IF i > Len(c.items) THEN [node |-> c, sv |-> res]
    ELSE SnapshotNext(c, i, res, getSavedValue(Child(c, i)), PyStr(KeyOf(c, i)))
\* The dict returned; that of a ConfigSubsection is its stored_values itself
Snapshot(r, keep) ==
    [node |-> IF keep THEN [r.node EXCEPT !.stored_values = r.sv] ELSE r.node,
     sv |-> PyDict(r.sv)]
getSavedValue(n) ==
    IF ~IsContainer(n) THEN [node |-> n, sv |-> SavedOf(n)]
    ELSE IF n.cls = "ConfigSubsection"
    THEN Snapshot(SnapshotFrom(n, 1, n.stored_values), TRUE)
    ELSE Snapshot(SnapshotFrom(n, 1, <<>>), FALSE)

\* setSavedValue of the three containers, and the assignment of the
\* saved_value attribute of an element.  dict(values) of a str that is not
\* empty is a ValueError.
RECURSIVE setSavedValue(_, _)
RECURSIVE PushItems(_, _)
RECURSIVE PushKeys(_, _)
RECURSIVE PushItem(_, _, _)
RECURSIVE PushKey(_, _, _, _)
RECURSIVE PushedItem(_, _, _)
RECURSIVE PushedKey(_, _, _, _)
\* ch is member i after the assignment of its saved_value
PushedItem(c, i, ch) ==
    IF ch.err # "none" THEN [PutChild(c, i, Quiet(ch)) EXCEPT !.err = ch.err]
    ELSE PushItems(PutChild(c, i, ch), i + 1)
\* ConfigSubsection, ConfigSubDict: values.get(key) of the name of member i
PushItem(c, i, key) ==
    IF ~DictHas(c.stored_values, key) THEN PushItems(c, i + 1)
    ELSE PushedItem(c, i, setSavedValue(Child(c, i), DictGet(c.stored_values, key)))
PushItems(c, i) ==
    IF i > Len(c.items) THEN c ELSE PushItem(c, i, PyStr(KeyOf(c, i)))
\* ch is member i after the assignment of its saved_value
PushedKey(c, j, i, ch) ==
    IF ch.err # "none" THEN [PutChild(c, i, Quiet(ch)) EXCEPT !.err = ch.err]
    ELSE PushKeys(PutChild(c, i, ch), j + 1)
\* ConfigSubList: r is the outcome of int(key), n is len(self)
PushKey(c, j, r, n) ==
    IF ~r.ok THEN [c EXCEPT !.err = "ValueError"]
    ELSE IF r.v >= n THEN PushKeys(c, j + 1)
    ELSE IF n + r.v < 0 THEN [c EXCEPT !.err = "IndexError"]
    ELSE PushedKey(c, j, IF r.v >= 0 THEN r.v + 1 ELSE n + r.v + 1,
                   setSavedValue(c.items[IF r.v >= 0 THEN r.v + 1 ELSE n + r.v + 1],
                                 c.stored_values[j][2]))
PushKeys(c, j) ==
    IF j > Len(c.stored_values) THEN c
    ELSE PushKey(c, j, ParseInt(c.stored_values[j][1].s), Len(c.items))
setSavedValue(n, values) ==
    IF ~IsContainer(n) THEN [n EXCEPT !.saved_value = AsSaved(values)]
    ELSE IF values.t = "str" /\ values.s # <<>> THEN [n EXCEPT !.err = "ValueError"]
    ELSE IF n.cls = "ConfigSubList"
    THEN PushKeys([n EXCEPT !.stored_values = values.d], 1)
    ELSE PushItems([n EXCEPT !.stored_values = values.d], 1)

\* item.saved_value = x; item.load(): the end of the three attaching calls
\* s is the item after the assignment of its saved_value
LoadSet(s, py2, files) == IF s.err # "none" THEN s ELSE ContainerLoad(s, py2, files)
Deploy(item, x, py2, files) == LoadSet(setSavedValue(item, x), py2, files)

\* Member i of c replaced by v, whose exception is the exception of the call
Deployed(c, i, v) == [PutChild(c, i, Quiet(v)) EXCEPT !.err = v.err]

Chars_saved_value == <<"s", "a", "v", "e", "d", "_", "v", "a", "l", "u", "e">>

\* ConfigSubsection.__setattr__ without its assert statement
SubsectionSetAttr_NoAssert(c, name, value, py2, files) ==
    IF name = Chars_saved_value THEN setSavedValue(c, value)
    ELSE IF ItemIndex(c, PyStr(name)) = 0
    THEN [c EXCEPT !.items = Append(@, <<PyStr(name), value>>)]
    ELSE PutChild(c, ItemIndex(c, PyStr(name)), value)

\* ConfigSubsection.__setattr__
SubsectionSetAttr(c, name, value, py2, files) ==
    LET key == PyStr(name)
        i0 == ItemIndex(c, key)
        c1 == IF i0 = 0 THEN [c EXCEPT !.items = Append(@, <<key, value>>)]
              ELSE PutChild(c, i0, value)
        i == IF i0 = 0 THEN Len(c1.items) ELSE i0
    IN  IF name = Chars_saved_value THEN setSavedValue(c, value)
        ELSE IF "cls" \notin DOMAIN value THEN [c EXCEPT !.err = "AssertionError"]
        ELSE IF DictHas(c.stored_values, key)
        THEN Deployed(c1, i, Deploy(value, DictGet(c.stored_values, key), py2, files))
        ELSE c1

\* ConfigSubList.append with the index taken after the item is in the list
SubListAppend_IndexAfter(c, item, py2, files) ==
    LET c1 == [c EXCEPT !.items = Append(@, item)]
        i == PyStr(IntToStr(Len(c1.items)))
    IN  IF DictHas(c.stored_values, i)
        THEN Deployed(c1, Len(c1.items),
                      Deploy(item, DictGet(c.stored_values, i), py2, files))
        ELSE c1

\* ConfigSubList.append
SubListAppend(c, item, py2, files) ==
    LET i == PyStr(IntToStr(Len(c.items)))
        c1 == [c EXCEPT !.items = Append(@, item)]
    IN  IF DictHas(c.stored_values, i)
        THEN Deployed(c1, Len(c1.items),
                      Deploy(item, DictGet(c.stored_values, i), py2, files))
        ELSE c1

\* ConfigSubDict.__setitem__
SubDictSetItem(c, key, item, py2, files) ==
    LET i0 == ItemIndex(c, key)
        c1 == IF i0 = 0 THEN [c EXCEPT !.items = Append(@, <<key, item>>)]
              ELSE PutChild(c, i0, item)
        i == IF i0 = 0 THEN Len(c1.items) ELSE i0
        k == PyStr(StrOf(key))
    IN  IF DictHas(c.stored_values, k)
        THEN Deployed(c1, i, Deploy(item, DictGet(c.stored_values, k), py2, files))
        ELSE c1

\* s.isdigit()
IsDigitStr(s) == s # <<>> /\ \A i \in 1 .. Len(s) : IsDigitChar(s[i])

\* sorted(topickle.items(), key=...) of pickle_this: the key of an item is
\* its name, lowercased unless it is all digits; equal keys keep their order
PickleKey(item) == IF IsDigitStr(item[1].s) THEN item[1].s ELSE Lower(item[1].s)
PickleInsert(l, x) ==
    LET before == {i \in 1 .. Len(l) : ~StrLess(PickleKey(x), PickleKey(l[i]))}
        n == IF before = {} THEN 0
             ELSE CHOOSE i \in before : \A j \in before : j <= i
    IN  SubSeq(l, 1, n) \o <<x>> \o SubSeq(l, n + 1, Len(l))
RECURSIVE PickleSorted(_)
PickleSorted(items) ==
    IF items = <<>> THEN <<>>
    ELSE PickleInsert(PickleSorted(SubSeq(items, 1, Len(items) - 1)), items[Len(items)])

\* Config.pickle_this: the text appended to result
RECURSIVE pickle_this(_, _)
RECURSIVE PickleItems(_, _)
PickleItems(prefix, sorted) ==
    IF sorted = <<>> THEN <<>>
    ELSE LET name == prefix \o <<".">> \o Head(sorted)[1].s
             val == Head(sorted)[2]
         IN  (IF val.t = "dict" THEN pickle_this(name, val.d)
              ELSE name \o <<"=">> \o StrOf(val) \o <<"\n">>)
             \o PickleItems(prefix, Tail(sorted))
pickle_this(prefix, topickle) == PickleItems(prefix, PickleSorted(topickle))

Chars_config == <<"c", "o", "n", "f", "i", "g">>

\* Config.pickle: [node, text], the root after the call and the string
\* r is the outcome of self.getSavedValue()
Pickled(r) == [node |-> r.node, text |-> pickle_this(Chars_config, r.sv.d)]
pickle(root) == Pickled(getSavedValue(root))

\* The lines that iterating an open file of the given text yields
RECURSIVE FileLines(_)
FileLines(t) ==
    LET i == FirstIndex(t, "\n")
    IN  IF t = <<>> THEN <<>>
        ELSE IF i = 0 THEN <<t>>
        ELSE <<SubSeq(t, 1, i)>> \o FileLines(SubSeq(t, i + 1, Len(t)))

\* base = base.setdefault(n, {}) along names[1:-1], then base[names[-1]] = val,
\* on the items of configbase.  A str on the way has no setdefault and takes
\* no item assignment.
RECURSIVE TreePut(_, _, _, _)
TreePut(items, mids, leaf, val) ==
    IF mids = <<>> THEN Ok(DictPut(items, PyStr(leaf), PyStr(val)))
    ELSE LET k == PyStr(Head(mids))
             sub == IF DictHas(items, k) THEN DictGet(items, k) ELSE PyDict(<<>>)
             r == TreePut(sub.d, Tail(mids), leaf, val)
         IN  IF sub.t # "dict"
             THEN Raise(IF Len(mids) > 1 THEN "AttributeError" ELSE "TypeError")
             ELSE IF r.err # "none" THEN r
             ELSE Ok(DictPut(items, k, PyDict(r.v)))

\* A name that Python reads as an identifier
IsIdentifier(s) ==
    /\ s # <<>>
    /\ ~IsDigitChar(s[1])
    /\ \A i \in 1 .. Len(s) :
           s[i] = "_" \/ IsDigitChar(s[i])
           \/ \E j \in 1 .. 26 : s[i] \in {UpperChars[j], LowerChars[j]}

\* eval(name) of unpickle: the path of positions to the object named, or the
\* exception.  Attribute access reaches the members of a ConfigSubsection
\* (__getattr__) and of no other object of the tree.
RECURSIVE Resolve(_, _)
Resolve(n, names) ==
    IF names = <<>> THEN Ok(<<>>)
    ELSE IF n.cls # "ConfigSubsection" THEN Raise("AttributeError")
    ELSE LET i == ItemIndex(n, PyStr(Head(names)))
             r == Resolve(Child(n, i), Tail(names))
         IN  IF i = 0 THEN Raise("AttributeError")
             ELSE IF r.err # "none" THEN r
             ELSE Ok(<<i>> \o r.v)
EvalName(root, names) ==
    IF \E i \in 1 .. Len(names) : ~IsIdentifier(names[i]) THEN Raise("SyntaxError")
    ELSE IF names[1] # Chars_config THEN Raise("NameError")
    ELSE Resolve(root, Tail(names))

\* The update of unpickle for a file that is not the base file:
\* configEntry = eval(name); configEntry.value = val, SyntaxError and
\* KeyError passed over
\* The update of a line: r is the outcome of eval(name), entry the object
\* it gives, e the entry after configEntry.value = val
Updated(root, path, e) == [Put(root, path, Quiet(e)) EXCEPT !.err = e.err]
SetEntry(root, path, entry, val, py2) ==
    IF entry.cls = "ConfigSubsection" THEN [root EXCEPT !.err = "AssertionError"]
    ELSE IF IsContainer(entry) THEN root
    ELSE Updated(root, path, setValue(Begin(entry), PyStr(val), FALSE, py2))
Evaluated(root, r, val, py2) ==
    IF r.err \in {"SyntaxError", "KeyError"} THEN root
    ELSE IF r.err # "none" THEN [root EXCEPT !.err = r.err]
    ELSE SetEntry(root, r.v, Get(root, r.v), val, py2)
UpdateEntry(root, names, val, py2) == Evaluated(root, EvalName(root, names), val, py2)

\* The lines that the loop of unpickle passes over: if not line or
\* line[0] == "#": continue, and if len(line.split("=", 1)) != 2: continue
Skipped_Comments(line) == line = <<>> \/ line[1] = "#"
Skipped(line) == line = <<>> \/ line[1] = "#" \/ FirstIndex(line, "=") = 0

\* The loop of Config.unpickle over the lines: [root, configbase, err]
RECURSIVE ReadLines(_, _, _, _, _)
RECURSIVE ReadLine(_, _, _, _, _, _, _)
RECURSIVE ReadEntry(_, _, _, _, _, _, _, _)
RECURSIVE ReadNext(_, _, _, _, _, _)
\* One line of the loop: names and val of the line, put the outcome of the
\* assignment in the tree of dicts, upd the root after the update
ReadNext(upd, configbase, new, lines, base_file, py2) ==
    IF upd.err # "none"
    THEN [root |-> Quiet(upd), configbase |-> new, err |-> upd.err]
    ELSE ReadLines(upd, new, Tail(lines), base_file, py2)
ReadEntry(root, configbase, lines, base_file, py2, names, val, put) ==
    IF put.err # "none"
    THEN [root |-> root, configbase |-> configbase, err |-> put.err]
    ELSE ReadNext(IF base_file THEN root ELSE UpdateEntry(root, names, val, py2),
                  configbase, put.v, lines, base_file, py2)
ReadLine(root, configbase, lines, base_file, py2, names, val) ==
    ReadEntry(root, configbase, lines, base_file, py2, names, val,
              TreePut(configbase, SubSeq(names, 2, Len(names) - 1),
                      names[Len(names)], val))
ReadLines(root, configbase, lines, base_file, py2) ==
    IF lines = <<>> THEN [root |-> root, configbase |-> configbase, err |-> "none"]
    ELSE LET line == Head(lines)
             eq == FirstIndex(line, "=")
         IN  IF Skipped(line)
             THEN ReadLines(root, configbase, Tail(lines), base_file, py2)
             ELSE ReadLine(root, configbase, lines, base_file, py2,
                           Split(SubSeq(line, 1, eq - 1), "."),
                           Strip(SubSeq(line, eq + 1, Len(line))))

\* Config.unpickle
\* self.setSavedValue(tree["config"]), r being the outcome of the loop
SetRead(r) ==
    IF r.err # "none" THEN [r.root EXCEPT !.err = r.err]
    ELSE setSavedValue(r.root, PyDict(r.configbase))
unpickle(root, lines, base_file, py2) ==
    SetRead(ReadLines(root, <<>>, lines, base_file, py2))

(***************************************************************************)
(* The tree under use: the module's own root (lines 2179-2180: config is a *)
(* Config and config.misc a ConfigSubsection), files read with unpickle,   *)
(* containers and ConfigYesNo elements attached, elements toggled, the     *)
(* tree saved, loaded and pickled, and the text of the last pickle() read  *)
(* back.  The files hold a str below the keys where elements are attached  *)
(* and sections below the key where containers are.                        *)
(***************************************************************************)
MaxTreeOps == 4

Chars_misc == <<"m", "i", "s", "c">>
Chars_sub == <<"s", "u", "b">>
Chars_foo == <<"f", "o", "o">>
Chars_bar == <<"b", "a", "r">>

\* The line name=val of a settings file
Line(names, val) == Join(names, ".") \o <<"=">> \o val \o <<"\n">>

NumFiles == 3
SettingsFile(i) ==
    CASE i = 1 -> << Line(<<Chars_config, Chars_misc, <<"x">>>>, Chars_True),
                     Line(<<Chars_config, Chars_misc, Chars_foo>>, Chars_bar),
                     Line(<<Chars_config, Chars_sub, <<"0">>>>, Chars_True) >>
      [] i = 2 -> << <<"#", "\n">>,
                     Line(<<Chars_config, Chars_sub, <<"0">>, <<"x">>>>, Chars_True),
                     Line(<<Chars_config, Chars_sub, <<"1">>>>, Chars_False) >>
      [] OTHER -> << Line(<<Chars_config, Chars_sub, <<"x">>>>, Chars_True),
                     Line(<<Chars_config, Chars_misc, <<"x">>>>, Chars_False) >>

\* The objects a program attaches: ConfigYesNo(default) is a ConfigBoolean
NumNodes == 5
NewNode(i) ==
    CASE i = 1 -> Watched(ConfigBoolean(FALSE))
      [] i = 2 -> Watched(ConfigBoolean(TRUE))
      [] i = 3 -> ConfigSubsection
      [] i = 4 -> ConfigSubList
      [] OTHER -> ConfigSubDict

\* The paths of positions to the nodes of the tree below n
RECURSIVE Paths(_)
Paths(n) ==
    IF ~IsContainer(n) THEN {<<>>}
    ELSE {<<>>} \cup UNION { {<<i>> \o q : q \in Paths(Child(n, i))} :
                             i \in 1 .. Len(n.items) }
PathsTo(classes) == {p \in Paths(config) : Get(config, p).cls \in classes}

TreeOp(op, path, key) == [op |-> op, path |-> path, key |-> key]

InitTree ==
    /\ PY2 \in BOOLEAN
    /\ IdleFile
    /\ disk = {}
    /\ config = SubsectionSetAttr(ConfigSubsection, Chars_misc, ConfigSubsection,
                                  PY2, disk)
    /\ configprev = config
    /\ text = <<>>
    /\ read = {}
    /\ treeop = TreeOp("init", <<>>, PyNone)
    /\ steps = 0
    /\ IdleSeq /\ IdleSel /\ IdleEl

TreeDo(root, op) ==
    /\ steps < MaxTreeOps
    /\ config' = root
    /\ configprev' = config
    /\ treeop' = op
    /\ steps' = steps + 1
    /\ UNCHANGED <<seqVars, selVars, elVars, envVars, fileVars>>

\* The lines that the stored values hold after unpickle(lines, base_file):
\* the lines given if the loop over them came to its end, the lines of the
\* call before if it raised
ReadBy(lines, base_file) ==
    IF ReadLines(Quiet(config), <<>>, lines, base_file, PY2).err = "none"
    THEN Range(lines)
    ELSE read

\* config.unpickle(lines, base_file) of a settings file
Unpickle == \E i \in 1 .. NumFiles, base_file \in BOOLEAN :
    /\ TreeDo(unpickle(Quiet(config), SettingsFile(i), base_file, PY2),
              TreeOp("unpickle", <<>>, PyNone))
    /\ read' = ReadBy(SettingsFile(i), base_file)
    /\ UNCHANGED text

\* config.unpickle of the lines of the text that pickle() returned:
\* saveToFile and loadFromFile
Reload ==
    /\ text # <<>>
    /\ TreeDo(unpickle(Quiet(config), FileLines(text), TRUE, PY2),
              TreeOp("unpickle", <<>>, PyNone))
    /\ read' = ReadBy(FileLines(text), TRUE)
    /\ UNCHANGED text

\* text = config.pickle()
Pickle ==
    LET r == pickle(Quiet(config))
    IN  /\ TreeDo(r.node, TreeOp("pickle", <<>>, PyNone))
        /\ text' = r.text
        /\ UNCHANGED read

\* config.save() and config.load()
SaveAll ==
    /\ TreeDo(ContainerSave(Quiet(config)), TreeOp("save", <<>>, PyNone))
    /\ UNCHANGED <<text, read>>
LoadAll ==
    /\ TreeDo(ContainerLoad(Quiet(config), PY2, disk), TreeOp("load", <<>>, PyNone))
    /\ UNCHANGED <<text, read>>

\* The call of an attached object raises what the call on the root raises
Attach(path, parent, op) ==
    /\ TreeDo([Put(Quiet(config), path, Quiet(parent)) EXCEPT !.err = parent.err], op)
    /\ UNCHANGED <<text, read>>

\* config.sub = a container, and section.x = ConfigYesNo(default) on a
\* section below the root
SetAttr == \E path \in PathsTo({"ConfigSubsection"}), i \in 1 .. NumNodes :
    LET name == IF path = <<>> THEN Chars_sub ELSE <<"x">>
    IN  /\ (path = <<>>) <=> (i \in 3 .. NumNodes)
        /\ Attach(path, SubsectionSetAttr(Get(config, path), name, NewNode(i), PY2, disk),
                  TreeOp("setattr", path, PyStr(name)))

\* list.append(item)
ListAppend == \E path \in PathsTo({"ConfigSubList"}), i \in 1 .. 3 :
    Attach(path, SubListAppend(Get(config, path), NewNode(i), PY2, disk),
           TreeOp("append", path, PyNone))

\* dict[key] = ConfigYesNo(default)
DictSetItem == \E path \in PathsTo({"ConfigSubDict"}), i \in 1 .. 2,
                  key \in {PyInt(0), PyStr(<<"x">>)} :
    Attach(path, SubDictSetItem(Get(config, path), key, NewNode(i), PY2, disk),
           TreeOp("setitem", path, key))

\* element.handleKey(ACTIONKEY_TOGGLE)
Toggle == \E path \in PathsTo({"ConfigBoolean"}) :
    LET e == ElemHandleKey(Begin(Get(config, path)), ACTIONKEY_TOGGLE, PY2)
    IN  /\ TreeDo([Put(Quiet(config), path, Quiet(e)) EXCEPT !.err = e.err],
                  TreeOp("handleKey", path, PyNone))
        /\ UNCHANGED <<text, read>>

NextTree ==
    \/ Unpickle \/ Reload \/ Pickle \/ SaveAll \/ LoadAll
    \/ SetAttr \/ ListAppend \/ DictSetItem \/ Toggle

SpecTree == InitTree /\ [][NextTree]_vars

\* The name left of the first "=" of a line, split at the dots
LineNames(line) == Split(SubSeq(line, 1, FirstIndex(line, "=") - 1), ".")

\* An object is attached under the names: each name is the attribute of a
\* section, the index of a list or the key of a dict that leads on
RECURSIVE IsLive(_, _)
IsLive(n, names) ==
    IF names = <<>> THEN TRUE
    ELSE IF ~IsContainer(n) THEN FALSE
    ELSE \E i \in 1 .. Len(n.items) :
             KeyOf(n, i) = Head(names) /\ IsLive(Child(n, i), Tail(names))

\* The lines of the last file read whose key has no live object
Unknown ==
    {line \in read : /\ line[1] # "#"
                     /\ FirstIndex(line, "=") > 0
                     /\ ~IsLive(config, Tail(LineNames(line)))}

\* C1: a line name=value whose key has no live element, once unpickle has
\* read it, is a line of the text every later pickle() returns, whatever
\* save(), pickle() and unpickle() of that text happened since, as long as
\* nothing is attached under its key.
C1_UnknownLineKept ==
    treeop.op = "pickle" => \A line \in Unknown : line \in Range(FileLines(text))

\* The last call attached a child: the container as the call found it, str()
\* of the key the child went under, and the child after the call
Attached == treeop.op \in {"setattr", "append", "setitem"}
AttachParent == Get(configprev, treeop.path)
AttachKey ==
    IF treeop.op = "append" THEN PyStr(IntToStr(Len(AttachParent.items)))
    ELSE PyStr(StrOf(treeop.key))
AttachedChild ==
    LET c == Get(config, treeop.path)
    IN  IF treeop.op = "append" THEN c.items[Len(c.items)]
        ELSE Child(c, ItemIndex(c, treeop.key))
Cached == Attached /\ DictHas(AttachParent.stored_values, AttachKey)

\* C2: in each of the three containers, attaching a child under a key for
\* which a stored value is cached makes that stored value the saved form of
\* the child and loads it: an element then holds the decoded stored value,
\* whatever its default, and a container holds the stored section as its
\* own cache.
C2_LateBinding ==
    Cached =>
        LET x == DictGet(AttachParent.stored_values, AttachKey)
            child == AttachedChild
        IN  IF IsContainer(child) THEN x.t = "dict" => child.stored_values = x.d
            ELSE /\ config.err = "none"
                 /\ SavedOf(child) = x
                 /\ getValue(child) = fromstring(child, StrOf(x)).v

\* An element appended to a list took the cached value of its index, which
\* is not its default
C2_Witness ==
    /\ Cached
    /\ treeop.op = "append"
    /\ ~IsContainer(AttachedChild)
    /\ getValue(AttachedChild) # AttachedChild.default

(***************************************************************************)
(* Config.saveToFile, lines 2129-2140, one statement at a time.  The       *)
(* settings file is the file that the name filename designates; the file   *)
(* opened under filename + ".writing" is another file until rename() gives *)
(* it the name.  Of each file there is what the kernel holds (cache, what  *)
(* a reader sees) and what the medium holds (what is there after a power   *)
(* loss); the kernel writes its cache back when it likes, and fsync()      *)
(* returns when the medium holds the data of the file.  Every call of the  *)
(* try block may fail with the error the interpreter raises for it.        *)
(***************************************************************************)
ChunkLen == 16    \* characters that reach a file in one piece

File(exists, data) == [exists |-> exists, data |-> data]
Absent == File(FALSE, <<>>)

\* The prefixes of t that a write which did not come to its end leaves
ChunkEnds(t) == {n \in 0 .. Len(t) : n % ChunkLen = 0 \/ n = Len(t)}
Prefixes(t) == {SubSeq(t, 1, n) : n \in ChunkEnds(t)}

\* The content of the settings file as the kernel shows it (view "cache")
\* and as the medium holds it (view "medium")
Canonical(view) == IF fs.name[view] = "old" THEN fs.old ELSE fs.writing[view]

\* The statement after each statement of the try block, lines 2133-2138
NextStep_NoSync(step) ==
    CASE step = "open" -> "write"
      [] step = "write" -> "flush"
      [] step = "flush" -> "close"
      [] step = "fsync" -> "close"
      [] step = "close" -> "rename"
      [] OTHER -> "return"
NextStep(step) ==
    CASE step = "open" -> "write"
      [] step = "write" -> "flush"
      [] step = "flush" -> "fsync"
      [] step = "fsync" -> "close"
      [] step = "close" -> "rename"
      [] OTHER -> "return"

\* What a failed call raises: the file object raises IOError and the os
\* module OSError, which are one class in Python 3
ErrorOf(step, py2) ==
    IF py2 /\ step \in {"open", "write", "flush", "close"} THEN "IOError"
    ELSE "OSError"

\* The settings of the tree are those of one file; the settings file holds
\* an earlier snapshot or is not there, and a ".writing" file may be left
\* from an earlier call
InitSave ==
    /\ PY2 \in BOOLEAN
    /\ disk = {}
    /\ \E i \in 1 .. NumFiles :
          config = unpickle(SubsectionSetAttr(ConfigSubsection, Chars_misc,
                                              ConfigSubsection, PY2, disk),
                            SettingsFile(i), TRUE, PY2)
    /\ configprev = config
    /\ text = <<>>
    /\ read = {}
    /\ treeop = TreeOp("init", <<>>, PyNone)
    /\ steps = 0
    /\ \E j \in 0 .. NumFiles, stale \in {Absent, File(TRUE, Chars_config)} :
          fs = [old |-> IF j = 0 THEN Absent
                        ELSE File(TRUE, pickle_this(Chars_config,
                                                    ReadLines(ConfigSubsection, <<>>,
                                                              SettingsFile(j), TRUE,
                                                              PY2).configbase)),
                writing |-> [cache |-> stale, medium |-> stale],
                name |-> [cache |-> "old", medium |-> "old"],
                buffer |-> <<>>,
                err |-> "none"]
    /\ pc = "pickle"
    /\ IdleSeq /\ IdleSel /\ IdleEl

SaveStep(step, f) ==
    /\ pc = step
    /\ fs' = f
    /\ pc' = NextStep(step)
    /\ UNCHANGED <<seqVars, selVars, elVars, treeVars, envVars>>
SaveFail(step, f) ==
    /\ pc = step
    /\ fs' = [f EXCEPT !.err = ErrorOf(step, PY2)]
    /\ pc' = "except"
    /\ UNCHANGED <<seqVars, selVars, elVars, treeVars, envVars>>

\* text = self.pickle()
SavePickle ==
    /\ pc = "pickle"
    /\ config' = pickle(Quiet(config)).node
    /\ text' = pickle(Quiet(config)).text
    /\ pc' = "open"
    /\ UNCHANGED <<seqVars, selVars, elVars, envVars, fs, configprev, read,
                   treeop, steps>>

\* f = open(filename + ".writing", "w"): the file is there and empty
SaveOpen == SaveStep("open", [fs EXCEPT !.writing.cache = File(TRUE, <<>>)])
SaveOpenFails == SaveFail("open", fs)

\* f.write(text): the text is in the buffer of f, which writes a part of it
\* when it is full
SaveWrite == \E t \in Prefixes(text) :
    SaveStep("write", [fs EXCEPT !.buffer = SubSeq(text, Len(t) + 1, Len(text)),
                                 !.writing.cache.data = t])
SaveWriteFails == \E t \in Prefixes(text) \ {text} :
    SaveFail("write", [fs EXCEPT !.writing.cache.data = t])

\* f.flush()
SaveFlush ==
    SaveStep("flush", [fs EXCEPT !.buffer = <<>>,
                                 !.writing.cache.data = @ \o fs.buffer])
SaveFlushFails == \E t \in Prefixes(fs.buffer) \ {fs.buffer} :
    SaveFail("flush", [fs EXCEPT !.writing.cache.data = @ \o t])

\* fsync(f.fileno())
SaveFsync == SaveStep("fsync", [fs EXCEPT !.writing.medium = fs.writing.cache])
SaveFsyncFails == SaveFail("fsync", fs)

\* f.close()
SaveClose == SaveStep("close", fs)
SaveCloseFails == SaveFail("close", fs)

\* rename(filename + ".writing", filename): the name designates the file
\* written, in one step
SaveRename == SaveStep("rename", [fs EXCEPT !.name.cache = "new"])
SaveRenameFails == SaveFail("rename", fs)

\* except (IOError, OSError) as err: print(...)
SaveExcept ==
    /\ pc = "except"
    /\ pc' = IF fs.err \in {"IOError", "OSError"} THEN "return" ELSE "raise"
    /\ UNCHANGED <<seqVars, selVars, elVars, treeVars, envVars, fs>>

\* The data of the file f that the medium holds already: they stay
IsPrefix(s, t) == Len(s) <= Len(t) /\ s = SubSeq(t, 1, Len(s))
Written(f) ==
    IF f.medium.exists /\ IsPrefix(f.medium.data, f.cache.data)
    THEN Len(f.medium.data) ELSE 0

\* The kernel writes data of the ".writing" file back, or the directory
Writeback ==
    /\ pc \notin {"pickle", "crashed"}
    /\ \/ /\ fs.writing.cache.exists
          /\ \E t \in Prefixes(fs.writing.cache.data) :
                /\ Len(t) >= Written(fs.writing)
                /\ File(TRUE, t) # fs.writing.medium
                /\ fs' = [fs EXCEPT !.writing.medium = File(TRUE, t)]
       \/ /\ fs.name.medium # fs.name.cache
          /\ fs' = [fs EXCEPT !.name.medium = fs.name.cache]
    /\ UNCHANGED <<seqVars, selVars, elVars, treeVars, envVars, pc>>

\* Power is lost: what the medium holds is what there is
PowerLoss ==
    /\ pc \notin {"pickle", "crashed"}
    /\ fs' = [fs EXCEPT !.writing.cache = fs.writing.medium,
                        !.name.cache = fs.name.medium,
                        !.buffer = <<>>]
    /\ pc' = "crashed"
    /\ UNCHANGED <<seqVars, selVars, elVars, treeVars, envVars>>

NextSave ==
    \/ SavePickle
    \/ SaveOpen \/ SaveOpenFails
    \/ SaveWrite \/ SaveWriteFails
    \/ SaveFlush \/ SaveFlushFails
    \/ SaveFsync \/ SaveFsyncFails
    \/ SaveClose \/ SaveCloseFails
    \/ SaveRename \/ SaveRenameFails
    \/ SaveExcept
    \/ Writeback
    \/ PowerLoss

SpecSave == InitSave /\ [][NextSave]_vars

\* C16: from the first statement of the try block of saveToFile on, after
\* each of its statements, after an error of any of its calls and after a
\* loss of power, the settings file holds the whole content it had before
\* the call or the whole text of pickle(), for a reader and on the medium,
\* and saveToFile raises no error of its calls.
C16_AtomicSave ==
    pc \notin {"idle", "pickle"} =>
        /\ Canonical("cache") \in {fs.old, File(TRUE, text)}
        /\ Canonical("medium") \in {fs.old, File(TRUE, text)}
        /\ pc # "raise"

\* flush() failed with a part of the text in the ".writing" file, the error
\* was caught and the settings file is the one of before
C16_Witness ==
    /\ pc = "return"
    /\ fs.err # "none"
    /\ fs.old.exists
    /\ Len(fs.writing.cache.data) \in 1 .. Len(text) - 1
    /\ Canonical("cache") = fs.old
    /\ fs.old # File(TRUE, text)

(***************************************************************************)
(* The codec of the settings file as a function of its input: unpickle()   *)
(* of the lines of a file, lines 2100-2122, and pickle() of the stored     *)
(* values that they leave, lines 2085-2098.  The lines of a file are drawn *)
(* from lines that set an entry, with keys of digits of different lengths  *)
(* and keys that differ in case, and lines that set none.                  *)
(***************************************************************************)
MaxLines == 3     \* lines of a settings file

InputLines ==
    { Line(<<Chars_config, Chars_sub, <<"2">>>>, Chars_True),
      Line(<<Chars_config, Chars_sub, <<"1", "0">>>>, Chars_False),
      Line(<<Chars_config, Chars_misc, <<"a">>>>, Chars_bar),
      Line(<<Chars_config, Chars_misc, <<"B">>>>, Chars_foo),
      <<>>,
      <<"\n">>,
      <<"#">> \o Line(<<Chars_config, Chars_sub, <<"3">>>>, Chars_True),
      Chars_config \o <<".">> \o Chars_foo \o <<"\n">> }

InputFiles == UNION { [1 .. n -> InputLines] : n \in 0 .. MaxLines }

InitCodec ==
    /\ PY2 \in BOOLEAN
    /\ IdleFile
    /\ disk = {}
    /\ config = SubsectionSetAttr(ConfigSubsection, Chars_misc, ConfigSubsection,
                                  PY2, disk)
    /\ configprev = config
    /\ text = <<>>
    /\ read = {}
    /\ \E lines \in InputFiles :
          treeop = [op |-> "open", path |-> <<>>, key |-> PyNone, lines |-> lines,
                    base_file |-> TRUE]
    /\ steps = 0
    /\ IdleSeq /\ IdleSel /\ IdleEl

\* config.unpickle(lines, base_file) of the lines of the file
ReadInput == \E base_file \in BOOLEAN :
    /\ treeop.op = "open"
    /\ TreeDo(unpickle(Quiet(config), treeop.lines, base_file, PY2),
              [treeop EXCEPT !.op = "unpickle", !.base_file = base_file])
    /\ read' = ReadBy(treeop.lines, base_file)
    /\ UNCHANGED text

\* text = config.pickle() of what was read
PickleRead ==
    /\ treeop.op # "open"
    /\ Pickle

NextCodec == ReadInput \/ PickleRead

SpecCodec == InitCodec /\ [][NextCodec]_vars

\* The keys of two lines of the text at the level where their names part
Parting(m, n) ==
    CHOOSE d \in 1 .. Len(m) : m[d] # n[d] /\ \A e \in 1 .. d - 1 : m[e] = n[e]
\* The order of two keys of one level: by number if both are of digits, and
\* without regard to case if neither is
InOrder(a, b) ==
    IF IsDigitStr(a) /\ IsDigitStr(b) THEN ParseInt(a).v < ParseInt(b).v
    ELSE IF ~IsDigitStr(a) /\ ~IsDigitStr(b) THEN ~StrLess(Lower(b), Lower(a))
    ELSE TRUE
\* The lines name=value of the leaves of a dict
RECURSIVE Leaves(_, _)
Leaves(prefix, items) ==
    UNION { LET name == prefix \o <<".">> \o items[i][1].s
            IN  IF items[i][2].t = "dict" THEN Leaves(name, items[i][2].d)
                ELSE {name \o <<"=">> \o StrOf(items[i][2]) \o <<"\n">>} :
            i \in 1 .. Len(items) }

\* C17: the text of pickle() has one line prefix.key=value for each leaf of
\* the saved values, and of two lines the one comes first whose key, at the
\* level where the names of the two part, is the smaller number if both
\* keys are of digits, and is not the greater without regard to case if
\* neither is.
C17_SortedKeys ==
    treeop.op = "pickle" =>
        LET lines == FileLines(text)
            saved == getSavedValue(Quiet(config)).sv.d
        IN  /\ Range(lines) = Leaves(Chars_config, saved)
            /\ Len(lines) = Cardinality(Leaves(Chars_config, saved))
            /\ \A i, j \in 1 .. Len(lines) : i < j =>
                   LET m == LineNames(lines[i])
                       n == LineNames(lines[j])
                   IN  InOrder(m[Parting(m, n)], n[Parting(m, n)])

\* The lines of a file that set no entry: empty, a comment, without "="
Junk(line) == line = <<>> \/ Head(line) = "#" \/ "=" \notin Range(line)
Kept(lines) == SelectSeq(lines, LAMBDA l : ~Junk(l))

\* C18: unpickle of the lines of a file leaves the tree, stored values and
\* error included, that unpickle of the lines without those that are
\* empty, start with "#" or hold no "=" leaves, and raises nothing if the
\* file has no other lines.
C18_SkippedLines ==
    treeop.op = "unpickle" =>
        /\ config = unpickle(Quiet(configprev), Kept(treeop.lines),
                             treeop.base_file, PY2)
        /\ Kept(treeop.lines) = <<>> => config.err = "none"

\* A file with a line without "=", a comment that holds "=" and a line that
\* sets an entry was read, and the entry is stored
C18_Witness ==
    /\ treeop.op = "unpickle"
    /\ config.err = "none"
    /\ \E i, j, k \in 1 .. Len(treeop.lines) :
          /\ "=" \notin Range(treeop.lines[i])
          /\ treeop.lines[j] # <<>> /\ Head(treeop.lines[j]) = "#"
          /\ "=" \in Range(treeop.lines[j])
          /\ ~Junk(treeop.lines[k])
    /\ config.stored_values # <<>>

(***************************************************************************)
(* load() as a function of the persisted string: an element of any variant *)
(* whose saved_value is absent, the saved form of a value of its type, or  *)
(* a string that is no form of a value of its type.                        *)
(***************************************************************************)
\* Strings that no variant writes
ForeignStrings == {Chars_foo, <<"1", "x">>}

Persisted(e) ==
    {None} \cup {Str(tostring(e, v)) : v \in ElemInputs(e)}
           \cup {Str(s) : s \in ForeignStrings}

InitDecode ==
    /\ \E i \in 1 .. NumVariants :
         \E sv \in Persisted(Variant(i)) :
             el = [Watched(Variant(i)) EXCEPT !.saved_value = sv]
    /\ elprev = el
    /\ elops = <<>>
    /\ PY2 \in BOOLEAN
    /\ IdleFile
    /\ disk = {PathA, PathB}
    /\ IdleSeq /\ IdleSel /\ IdleTree

NextDecode == ElemLoad \/ ElemSet \/ ElemSave

SpecDecode == InitDecode /\ [][NextDecode]_vars

\* A persisted string that is no value of the type of e: text that is not
\* numeric for the variants that hold numbers, a string that is none of
\* the choices for a selector
NumberClasses ==
    {"ConfigSlider", "ConfigDateTime", "ConfigInteger"} \cup SequenceClasses
HasLetter(s) ==
    \E i \in 1 .. Len(s), j \in 1 .. 26 : s[i] \in {UpperChars[j], LowerChars[j]}
Undecodable(e, s) ==
    \/ e.cls \in NumberClasses /\ HasLetter(s)
    \/ /\ e.cls = "ConfigSelection"
       /\ \A i \in 1 .. Len(choices_iter(e.choices).v) :
              StrOf(choices_iter(e.choices).v[i]) # s

\* C19: load() of an element whose persisted string is no value of its
\* type (text that is not numeric for ConfigSlider, ConfigDateTime,
\* ConfigSequence and ConfigInteger, a string that matches no choice for
\* ConfigSelection) raises nothing and leaves the default as the value.
C19_DecodeFailure ==
    ( /\ elops # <<>>
      /\ LastElemOp.op = "load"
      /\ elprev.saved_value.t = "str"
      /\ Undecodable(elprev, elprev.saved_value.v) ) =>
        /\ el.err = "none"
        /\ getValue(el) = el.default

(***************************************************************************)
(* The snapshot of a container: what its saved_value getter returns.       *)
(***************************************************************************)
\* A member of the container n is attached under the key k
HasChild(n, k) == \E i \in 1 .. Len(n.items) : PyStr(KeyOf(n, i)) = k

\* The snapshot of n holds the entry k -> v
Holds(snap, k, v) == DictHas(snap, k) /\ DictGet(snap, k) = v

\* C20: the dict that the saved_value getter of a ConfigSubList, a
\* ConfigSubDict or a ConfigSubsection of the tree returns holds every
\* entry of its stored values under whose key no member is attached, and
\* the saved form of every member that has one under the key of the member.
C20_SnapshotMerge ==
    \A p \in PathsTo(ContainerClasses) :
        LET n == Get(config, p)
            snap == getSavedValue(n).sv.d
        IN  /\ \A j \in 1 .. Len(n.stored_values) :
                   ~HasChild(n, n.stored_values[j][1]) =>
                       Holds(snap, n.stored_values[j][1], n.stored_values[j][2])
            /\ \A i \in 1 .. Len(n.items) :
                   getSavedValue(Child(n, i)).sv.t # "NoneType" =>
                       Holds(snap, PyStr(KeyOf(n, i)), getSavedValue(Child(n, i)).sv)

(***************************************************************************)
(* The stored values of the root over two calls of unpickle.               *)
(***************************************************************************)
\* One of the names is the other or leads to it
Related(m, n) ==
    \A d \in 1 .. (IF Len(m) < Len(n) THEN Len(m) ELSE Len(n)) : m[d] = n[d]

\* The entries of the stored values of the root before the last call, as
\* lines name=value, whose key and the keys it leads through are the key of
\* no line of the file read by the call
Untouched ==
    {leaf \in Leaves(Chars_config, configprev.stored_values) :
         \A line \in read : Junk(line) \/ ~Related(LineNames(line), LineNames(leaf))}

\* C21: after unpickle has read a file, every entry that the stored values
\* of the root held before the call, and whose key is the key of no line of
\* the file, is an entry of the stored values of the root and a line of the
\* text of pickle().
C21_CacheMerged ==
    (treeop.op = "unpickle" /\ config.err = "none") =>
        \A leaf \in Untouched :
            /\ leaf \in Leaves(Chars_config, config.stored_values)
            /\ leaf \in Range(FileLines(pickle(Quiet(config)).text))

(***************************************************************************)
(* ConfigFile.getResolvedKey, lines 2159-2176, on the tree as attaching    *)
(* calls and key presses leave it.  The elements of the tree are           *)
(* ConfigYesNo, whose value is a bool.                                     *)
(***************************************************************************)
\* The position in n of the member that n.dict() holds under the str key:
\* the items of a section, str(index) of a list, the dict itself
DictIndex(n, key) ==
    IF n.cls = "ConfigSubList"
    THEN IF \E i \in 1 .. Len(n.items) : IntToStr(i - 1) = key
         THEN CHOOSE i \in 1 .. Len(n.items) : IntToStr(i - 1) = key
         ELSE 0
    ELSE ItemIndex(n, PyStr(key))

\* str(cmap[key].value): a container has no attribute value
StrOfValue(n) ==
    IF IsContainer(n) THEN Raise("AttributeError") ELSE Ok(PyStr(StrOf(getValue(n))))

\* ConfigFile.__resolveValue, cmap being n.dict(); an element has no dict()
RECURSIVE resolveValue(_, _)
resolveValue(pickles, n) ==
    LET i == DictIndex(n, Head(pickles))
    IN  IF i = 0 THEN Ok(PyNone)
        ELSE IF Len(pickles) > 1
        THEN IF IsContainer(Child(n, i)) THEN resolveValue(Tail(pickles), Child(n, i))
             ELSE Raise("AttributeError")
        ELSE StrOfValue(Child(n, i))

\* ret if it is a str, "" if it is None
Resolved(ret) ==
    IF ret.err # "none" THEN ret
    ELSE IF ret.v.t = "str" THEN ret
    ELSE Ok(PyStr(<<>>))

\* ConfigFile.getResolvedKey
getResolvedKey(root, key) ==
    IF Len(Split(key, ".")) > 1 /\ Split(key, ".")[1] = Chars_config
    THEN Resolved(resolveValue(Tail(Split(key, ".")), root))
    ELSE Ok(PyStr(<<>>))

ResolveKeys ==
    { Chars_config,
      Join(<<Chars_config, Chars_misc>>, "."),
      Join(<<Chars_config, Chars_misc, <<"x">>>>, "."),
      Join(<<Chars_config, Chars_misc, <<"x">>, <<"y">>>>, "."),
      Join(<<Chars_config, Chars_foo, <<"x">>>>, "."),
      Join(<<Chars_bar, Chars_misc, <<"x">>>>, "."),
      Join(<<Chars_config, Chars_sub, <<"x">>>>, "."),
      Join(<<Chars_config, Chars_sub, <<"0">>>>, ".") }

\* configfile.getResolvedKey(key)
ResolveKey == \E key \in ResolveKeys :
    /\ TreeDo(Quiet(config),
              [op |-> "getResolvedKey", path |-> <<>>, key |-> PyStr(key),
               ret |-> getResolvedKey(Quiet(config), key)])
    /\ UNCHANGED <<text, read>>

NextResolve == SetAttr \/ ListAppend \/ DictSetItem \/ Toggle \/ ResolveKey

SpecResolve == InitTree /\ [][NextResolve]_vars

\* The element that the names lead to from n, if they lead to one
RECURSIVE LeadsTo(_, _)
LeadsTo(n, names) ==
    IF names = <<>> THEN IF IsContainer(n) THEN {} ELSE {n}
    ELSE IF ~IsContainer(n) THEN {}
    ELSE UNION { IF KeyOf(n, i) = Head(names) THEN LeadsTo(Child(n, i), Tail(names))
                 ELSE {} : i \in 1 .. Len(n.items) }
ElementOf(key) ==
    IF Len(Split(key, ".")) > 1 /\ Split(key, ".")[1] = Chars_config
    THEN LeadsTo(config, Tail(Split(key, ".")))
    ELSE {}

\* C22: getResolvedKey(key) raises nothing; it returns str(value) of the
\* element if the dotted key leads from config to an element of the tree,
\* and the empty string if it does not.
C22_ResolvedKey ==
    treeop.op = "getResolvedKey" =>
        /\ treeop.ret.err = "none"
        /\ \A e \in ElementOf(treeop.key.s) : treeop.ret.v = PyStr(StrOf(getValue(e)))
        /\ ElementOf(treeop.key.s) = {} => treeop.ret.v = PyStr(<<>>)

(***************************************************************************)
(* Assignments to the attributes of a ConfigSubsection, lines 2030-2040:   *)
(* objects of the tree and values that are none, under the name of a       *)
(* member and under the name saved_value, in sections that hold stored     *)
(* values of a file.                                                       *)
(***************************************************************************)
\* Values that are no object of the tree
Strangers ==
    {PyInt(1), PyStr(Chars_bar), PyDict(<< <<PyStr(<<"x">>), PyStr(Chars_True)>> >>)}

\* section.name = value
Assign_Stranger == \E path \in PathsTo({"ConfigSubsection"}), value \in Strangers,
                      name \in {<<"x">>, Chars_saved_value} :
    /\ name = Chars_saved_value => value.t # "int"
    /\ Attach(path, SubsectionSetAttr(Get(config, path), name, value, PY2, disk),
              [op |-> "assign", path |-> path, key |-> PyStr(name), value |-> value])

NextAttach == Unpickle \/ SetAttr \/ Assign_Stranger

SpecAttach == InitTree /\ [][NextAttach]_vars

\* C23, as stated: the assignment of a value that is no ConfigElement,
\* ConfigSubsection, ConfigSubList or ConfigSubDict to an attribute of a
\* ConfigSubsection raises AssertionError and leaves the members and the
\* stored values of the section, and the rest of the tree, as they were.
C23_Rejected ==
    treeop.op = "assign" =>
        /\ config.err = "AssertionError"
        /\ Quiet(config) = Quiet(configprev)

\* C23, amended: the same for every attribute but saved_value, whose
\* assignment is the call of setSavedValue.
C23_RejectedMember ==
    (treeop.op = "assign" /\ treeop.key # PyStr(Chars_saved_value)) =>
        /\ config.err = "AssertionError"
        /\ Quiet(config) = Quiet(configprev)

\* A str was assigned to the attribute x of a section that holds a member x
\* and stored values, and was rejected
C23_Witness ==
    /\ treeop.op = "assign"
    /\ treeop.key = PyStr(<<"x">>)
    /\ treeop.value = PyStr(Chars_bar)
    /\ ItemIndex(Get(config, treeop.path), PyStr(<<"x">>)) > 0
    /\ Get(config, treeop.path).stored_values # <<>>
    /\ config.err = "AssertionError"

(***************************************************************************)
(* Elements whose enabled flag is off: setup code sets element.enabled =   *)
(* False, and the element is edited as any other.                          *)
(***************************************************************************)
InitDisabled ==
    /\ \E i \in 1 .. NumVariants : el = [Watched(Variant(i)) EXCEPT !.enabled = FALSE]
    /\ elprev = el
    /\ elops = <<>>
    /\ PY2 \in BOOLEAN
    /\ IdleFile
    /\ disk = {PathA, PathB}
    /\ IdleSeq /\ IdleSel /\ IdleTree

NextDisabled == ElemKey \/ ElemSet \/ ElemLoad

SpecDisabled == InitDisabled /\ [][NextDisabled]_vars

\* The cursor of an element that has one
Cursor(e) ==
    IF "marked_pos" \in DOMAIN e THEN <<e.marked_pos>>
    ELSE IF "pos" \in DOMAIN e THEN <<e.pos>>
    ELSE <<>>

\* C24: handleKey on an element whose enabled flag is off leaves the value
\* and the cursor of the element as they were and calls no notifier.
C24_DisabledIgnoresKeys ==
    (elops # <<>> /\ LastElemOp.op = "handleKey" /\ ~elprev.enabled) =>
        /\ getValue(el) = getValue(elprev)
        /\ Cursor(el) = Cursor(elprev)
        /\ el.fired = <<>>
        /\ el.endFired = <<>>

(***************************************************************************)
(* cancel(), lines 129-132: an element with or without a persisted form is *)
(* loaded or saved, edited with keys, and the edits are cancelled.  The    *)
(* first entry of elops holds the element as setup code constructed it.    *)
(***************************************************************************)
MaxCancelOps == 3     \* calls on one element

InitCancel ==
    /\ \E i \in 1 .. NumVariants :
         \E sv \in {None} \cup {Str(tostring(Variant(i), v)) : v \in ElemInputs(Variant(i))} :
             el = [Watched(Variant(i)) EXCEPT !.saved_value = sv]
    /\ elprev = el
    /\ elops = <<ElemOp("init", 0, el)>>
    /\ PY2 \in BOOLEAN
    /\ IdleFile
    /\ disk = {PathA, PathB}
    /\ IdleSeq /\ IdleSel /\ IdleTree

CancelDo(e, op) ==
    /\ Len(elops) <= MaxCancelOps
    /\ el' = e
    /\ elprev' = el
    /\ elops' = Append(elops, op)
    /\ UNCHANGED <<seqVars, selVars, treeVars, envVars, fileVars>>

CancelLoad == CancelDo(load(Begin(el), PY2, disk), ElemOp("load", 0, 0))
CancelSave == CancelDo(save(Begin(el)), ElemOp("save", 0, 0))
CancelKey == \E key \in FocusKeys :
    /\ el.cls \in KeyClasses
    /\ Len(elops) > 1
    /\ CancelDo(ElemHandleKey(Begin(el), key, PY2), ElemOp("handleKey", key, 0))
Cancel ==
    /\ Len(elops) > 1
    /\ CancelDo(cancel(Begin(el), PY2, disk), ElemOp("cancel", 0, 0))

NextCancel == CancelLoad \/ CancelSave \/ CancelKey \/ Cancel

SpecCancel == InitCancel /\ [][NextCancel]_vars

\* The calls were a load() or save(), then keys, then cancel()
EditsCancelled ==
    /\ Len(elops) > 2
    /\ elops[2].op \in {"load", "save"}
    /\ \A k \in 3 .. Len(elops) - 1 : elops[k].op = "handleKey"
    /\ elops[Len(elops)].op = "cancel"

\* The value that load() gives the element as constructed when it has the
\* persisted form sv: the decoded form, or the default if there is none
Reverted(sv) == getValue(load([elops[1].v EXCEPT !.saved_value = sv], PY2, disk))

\* C25: cancel() after a load() or save() and any keys since raises nothing
\* and leaves as value the decoded persisted form of the element if it has
\* one, and the default the element was constructed with if it has none.
C25_CancelReverts ==
    EditsCancelled =>
        /\ el.err = "none"
        /\ getValue(el) = Reverted(elprev.saved_value)

(***************************************************************************)
(* The fields of a sequence element against its limits: ConfigInteger, a   *)
(* ConfigSequence of two fields, ConfigIP and ConfigClock, with values     *)
(* assigned and persisted that lie within and beyond the limits.           *)
(***************************************************************************)
SequenceVariants == {i \in 1 .. NumVariants : Variant(i).cls \in SequenceClasses \cup {"ConfigInteger"}}

\* Values for the fields of e: 2 in every field, and one more than the upper
\* limit in every field
FieldInputs(e) ==
    {[i \in 1 .. Len(e.limits) |-> 2],
     [i \in 1 .. Len(e.limits) |-> e.limits[i][2] + 1]}

\* What a caller assigns: ConfigInteger takes the number, the others the list
AsValue(e, fields) == IF e.cls = "ConfigInteger" THEN fields[1] ELSE fields

InitRange ==
    /\ \E i \in SequenceVariants :
         \E sv \in {None} \cup {Str(Join([k \in 1 .. Len(f) |-> IntToStr(f[k])],
                                         Variant(i).seperator)) :
                                f \in FieldInputs(Variant(i))} :
             el = [Watched(Variant(i)) EXCEPT !.saved_value = sv]
    /\ elprev = el
    /\ elops = <<>>
    /\ PY2 \in BOOLEAN
    /\ IdleFile
    /\ disk = {PathA, PathB}
    /\ IdleSeq /\ IdleSel /\ IdleTree

RangeSet == \E f \in FieldInputs(el) :
    ElemDo(setValue(Begin(el), AsValue(el, f), FALSE, PY2), ElemOp("setValue", 0, 0))

NextRange == RangeSet \/ ElemLoad \/ ElemKey

SpecRange == InitRange /\ [][NextRange]_vars

\* C26: in every state of a sequence element, after construction,
\* setValue, load() and handleKey, every field of the value lies within
\* the limits of the field.
C26_FieldsWithinLimits ==
    \A i \in 1 .. Len(el.value) :
        i <= Len(el.limits) =>
            /\ el.limits[i][1] <= el.value[i]
            /\ el.value[i] <= el.limits[i][2]

(***************************************************************************)
(* unpickle of a file that is not the base file (base_file = False), on    *)
(* the tree with ConfigYesNo elements and containers attached: each line   *)
(* is recorded in the tree of dicts and then assigned to the object that   *)
(* eval() of its name gives.                                               *)
(***************************************************************************)
UnpickleIncremental == \E i \in 1 .. NumFiles :
    /\ TreeDo(unpickle(Quiet(config), SettingsFile(i), FALSE, PY2),
              TreeOp("unpickle", <<>>, PyInt(i)))
    /\ read' = ReadBy(SettingsFile(i), FALSE)
    /\ UNCHANGED text

NextIncremental == UnpickleIncremental \/ SetAttr \/ ListAppend \/ DictSetItem \/ Toggle

SpecIncremental == InitTree /\ [][NextIncremental]_vars

\* The text right of the first "=" of a line, as unpickle strips it
LineValue(line) == Strip(SubSeq(line, FirstIndex(line, "=") + 1, Len(line)))

\* The element that eval() of the name of the line gives holds the decoded
\* form of the text of the line
Decoded(root, r, val) ==
    (r.err = "none" /\ ~IsContainer(Get(root, r.v))) =>
        getValue(Get(root, r.v)) = fromstring(Get(root, r.v), val).v

\* C27: after unpickle(lines, base_file=False), for every line whose name
\* resolves to an element, the value of the element is the decoded form of
\* the text of the line, which is what fromstring of the element gives.
C27_DecodedValue ==
    (treeop.op = "unpickle" /\ config.err = "none") =>
        \A line \in read :
            ~Junk(line) =>
                Decoded(config, EvalName(config, LineNames(line)), LineValue(line))

\* The lines of a file that unpickle records: those it does not skip
Entries(i) == {line \in Range(SettingsFile(i)) : ~Junk(line)}

\* C28: unpickle(lines, base_file=False) raises nothing when the name of a
\* line leads to no element (an attribute, a key or an index that is not
\* there) or its value cannot be assigned, and every line read is then an
\* entry of the stored values of the root.
C28_UnresolvedSkipped ==
    (treeop.op = "unpickle" /\ treeop.key.t = "int") =>
        /\ config.err = "none"
        /\ \A line \in Entries(treeop.key.n) :
               line \in Leaves(Chars_config, config.stored_values)

(***************************************************************************)
(* unpickle of files whose keys have one segment, or where the key of one  *)
(* line is the key of another with further segments.                       *)
(***************************************************************************)
PrefixLines ==
    { Line(<<Chars_config, Chars_sub>>, Chars_True),
      Line(<<Chars_config, Chars_sub, <<"x">>>>, Chars_False),
      Line(<<Chars_config, Chars_sub, <<"x">>, <<"y">>>>, Chars_bar),
      Line(<<Chars_config, Chars_sub, <<"x">>, <<"y">>, <<"z">>>>, Chars_foo),
      Line(<<Chars_foo>>, Chars_bar),
      Line(<<Chars_config>>, Chars_True),
      Line(<<Chars_config, Chars_misc, <<"a">>>>, Chars_bar) }

PrefixFiles == UNION { [1 .. n -> PrefixLines] : n \in 0 .. MaxLines }

InitPrefix ==
    /\ PY2 \in BOOLEAN
    /\ IdleFile
    /\ disk = {}
    /\ config = SubsectionSetAttr(ConfigSubsection, Chars_misc, ConfigSubsection,
                                  PY2, disk)
    /\ configprev = config
    /\ text = <<>>
    /\ read = {}
    /\ \E lines \in PrefixFiles :
          treeop = [op |-> "open", path |-> <<>>, key |-> PyNone, lines |-> lines,
                    base_file |-> TRUE]
    /\ steps = 0
    /\ IdleSeq /\ IdleSel /\ IdleEl

SpecPrefix == InitPrefix /\ [][NextCodec]_vars

\* C29: unpickle of the lines of a base file raises nothing, whatever the
\* lines: keys of one segment and keys that start with the whole key of
\* another line included.
C29_UnpickleTotal ==
    (treeop.op = "unpickle" /\ treeop.base_file) => config.err = "none"

(***************************************************************************)
(* Sequence editors with an end notifier registered, under key presses.    *)
(***************************************************************************)
\* ConfigSequence.addEndNotifier
addEndNotifier(e, notifier) == [e EXCEPT !.endNotifier = Append(@, notifier)]

\* The last column of an editor
LastColumn(e) == SumSeq(BlockLen(e.limits)) - 1

InitEnd ==
    /\ seq \in {addEndNotifier(e, "end1") : e \in SeqEditors}
    /\ seq0 = seq
    /\ keys = <<>>
    /\ wide \in IF seq.cls = "ConfigClock" THEN BOOLEAN ELSE {FALSE}
    /\ run = NoRun
    /\ IdleSel /\ IdleEl /\ IdleTree /\ NoEnv /\ IdleFile

SpecEnd == InitEnd /\ [][NextSeq]_vars

\* C30: LEFT with the cursor on column 0 and RIGHT with the cursor on the
\* last column of a ConfigSequence call every end notifier registered, and
\* leave the cursor on the column.
C30_EndNotified ==
    [][ (/\ seq.cls = "ConfigSequence"
         /\ \/ LastKey(keys') = ACTIONKEY_LEFT /\ seq.marked_pos = 0
            \/ LastKey(keys') = ACTIONKEY_RIGHT /\ seq.marked_pos = LastColumn(seq))
        => /\ seq'.endFired = seq'.endNotifier
           /\ seq'.marked_pos = seq.marked_pos ]_vars

(***************************************************************************)
(* Sequence elements whose persisted text holds some or all of the fields: *)
(* the first fields of a list of numbers, joined with the separator of the *)
(* element.                                                                *)
(***************************************************************************)
ShortVariants == {i \in 1 .. NumVariants : Variant(i).cls \in SequenceClasses}

\* The texts of the first n fields, n from 1 to the number of fields
ShortTexts(e) ==
    { Join([k \in 1 .. n |-> IntToStr(f[k])], e.seperator) :
        n \in 1 .. Len(e.limits),
        f \in {e.default, [i \in 1 .. Len(e.limits) |-> 2]} }

InitShort ==
    /\ \E i \in ShortVariants :
         \E s \in ShortTexts(Variant(i)) :
             el = [Watched(Variant(i)) EXCEPT !.saved_value = Str(s)]
    /\ elprev = el
    /\ elops = <<>>
    /\ PY2 \in BOOLEAN
    /\ IdleFile
    /\ disk = {PathA, PathB}
    /\ IdleSeq /\ IdleSel /\ IdleTree

NextShort == ElemLoad \/ ElemKey \/ ElemSave

SpecShort == InitShort /\ [][NextShort]_vars

\* load() has decoded a persisted text of numbers
LoadedText ==
    /\ elops # <<>>
    /\ LastElemOp.op = "load"
    /\ el.cls \in SequenceClasses
    /\ el.saved_value.t = "str"
    /\ el.err = "none"

\* The fields of the text s of e
TextFields(e, s) == Split(s, e.seperator)

\* C31: load() of a sequence element whose persisted text has not more
\* fields than the element has limits gives a value with one field per
\* limit: the numbers of the text first, in their order, and the lower limit
\* of its field for each field the text does not have.
C31_MissingFieldsFilled ==
    (LoadedText /\ Len(TextFields(el, el.saved_value.v)) <= Len(el.limits)) =>
        /\ Len(el.value) = Len(el.limits)
        /\ \A i \in 1 .. Len(el.limits) :
               el.value[i] =
                   IF i <= Len(TextFields(el, el.saved_value.v))
                   THEN ParseInt(TextFields(el, el.saved_value.v)[i]).v
                   ELSE el.limits[i][1]

\* The date editor with the text "2": the month is its lower limit, 1
C31_Witness ==
    /\ LoadedText
    /\ el.cls = "ConfigSequence"
    /\ el.saved_value.v = <<"2">>
    /\ el.value = <<2, 1>>

(***************************************************************************)
(* ConfigSelectionNumber, lines 874-903: a ConfigSelection over the str()  *)
(* of the numbers min, min + stepwidth, ... up to max, whose value reads   *)
(* as int and is assigned as str.                                          *)
(***************************************************************************)
\* The loop of __init__: step = min; while step <= max: ...; step += stepwidth
RECURSIVE Steps(_, _, _)
Steps(step, max, stepwidth) ==
    IF step <= max
    THEN <<Plain(PyStr(IntToStr(step)))>> \o Steps(step + stepwidth, max, stepwidth)
    ELSE <<>>

\* ConfigSelectionNumber.__init__; default is PyNone or an int
ConfigSelectionNumber(min, max, stepwidth, default, wraparound) ==
    [ConfigSelection(Steps(min, max, stepwidth), LIST_TYPE_LIST,
                     PyStr(IntToStr(IF default = PyNone THEN min ELSE default.n)))
        EXCEPT !.cls = "ConfigSelectionNumber"] @@ [wraparound |-> wraparound]

\* ConfigSelectionNumber.getValue: int(ConfigSelection.getValue(self))
NumGetValue(e) == PyInt(ParseInt(e.value.s).v)

\* ConfigSelectionNumber.setValue: ConfigSelection.setValue(self, str(val))
NumSetValue(e, val, py2) == SelSetValue(e, PyStr(StrOf(val)), py2)

\* ConfigSelection.handleKey on a ConfigSelectionNumber: self.value reads as
\* the int and self.value = self.choices[...] assigns the str of the choice
NumSelHandleKey(e, key, py2) ==
    IF choices_len(e.choices) > 1
    THEN SelHandleKeyAt(e, key, choices_index(e.choices, NumGetValue(e), py2),
                        choices_len(e.choices), py2)
    ELSE e

\* The tests of ConfigSelectionNumber.handleKey without wraparound, i being
\* the outcome of self.choices.index(self.value)
NumHandleKeyAt(e, key, i, py2) ==
    IF i.err # "none" THEN [e EXCEPT !.err = i.err]
    ELSE IF key = ACTIONKEY_RIGHT /\ choices_len(e.choices) = i.v + 1 THEN e
    ELSE IF key = ACTIONKEY_LEFT /\ i.v = 0 THEN e
    ELSE NumSelHandleKey(e, key, py2)

\* ConfigSelectionNumber.handleKey
NumHandleKey(e, key, py2) ==
    IF ~e.wraparound /\ key \in {ACTIONKEY_RIGHT, ACTIONKEY_LEFT}
    THEN NumHandleKeyAt(e, key, choices_index(e.choices, NumGetValue(e), py2), py2)
    ELSE NumSelHandleKey(e, key, py2)

\* The selectors of a number that setup code constructs: the progressions
\* 0 5 10, 1 2 3 4, 2 5 8 (9 is no member) and 3, with no default, with the
\* first, the second and the last member as default, and with the default 7
NumberRanges == { <<0, 10, 5>>, <<1, 4, 1>>, <<2, 9, 3>>, <<3, 3, 1>> }
NumberDefaults(r) ==
    {PyNone, PyInt(r[1]), PyInt(7)}
    \cup {PyInt(ParseInt(Steps(r[1], r[2], r[3])[i].v.s).v) :
            i \in {Len(Steps(r[1], r[2], r[3])), (Len(Steps(r[1], r[2], r[3])) + 1) \div 2}}
NumberSelectors ==
    UNION { {Watched(ConfigSelectionNumber(r[1], r[2], r[3], d, w)) :
                d \in NumberDefaults(r), w \in BOOLEAN} : r \in NumberRanges }

InitNumber ==
    /\ sel \in NumberSelectors
    /\ sel0 = sel
    /\ selprev = sel
    /\ selops = <<>>
    /\ PY2 \in BOOLEAN
    /\ IdleFile
    /\ disk = {}
    /\ IdleSeq /\ IdleEl /\ IdleTree

NumberKey == \E key \in SelKeys :
    SelDo(NumHandleKey(Begin(sel), key, PY2), SelOp("handleKey", key, PyNone))
NumberSet == \E v \in {PyInt(1), PyInt(5), PyInt(7)} :
    SelDo(NumSetValue(Begin(sel), v, PY2), SelOp("setValue", 0, v))

NextNumber == NumberKey \/ NumberSet

SpecNumber == InitNumber /\ [][NextNumber]_vars

\* The numbers of the progression of e, in order
Progression(e) == [i \in 1 .. Len(e.choices.choices) |-> ParseInt(e.choices.choices[i].v.s).v]

\* The value of e is the i-th number of its progression
AtStep(e, i) == NumGetValue(e).n = Progression(e)[i]

\* The default given at construction is a number of the progression
DefaultInRange == \E i \in 1 .. Len(Progression(sel0)) : AtStep(sel0, i)

\* C32: a ConfigSelectionNumber constructed over its progression: without
\* wraparound LEFT at the first number and RIGHT at the last leave the
\* value; with wraparound LEFT at the first number gives the last and RIGHT
\* at the last gives the first; no key raises, and after every key the
\* value is a number of the progression.
C32_NumberKeys ==
    (DefaultInRange /\ selops # <<>> /\ LastSelOp.op = "handleKey") =>
        LET n == Len(Progression(sel))
        IN  /\ sel.err = "none"
            /\ \E i \in 1 .. n : AtStep(sel, i)
            /\ (Pressed(ACTIONKEY_LEFT) /\ AtStep(selprev, 1)) =>
                   AtStep(sel, IF sel.wraparound THEN n ELSE 1)
            /\ (Pressed(ACTIONKEY_RIGHT) /\ AtStep(selprev, n)) =>
                   AtStep(sel, IF sel.wraparound THEN 1 ELSE n)

\* C33: a ConfigSelectionNumber constructed with a default that is no
\* number of its progression has the first number, min, as its value.
C33_DefaultIgnored ==
    (selops = <<>> /\ ~DefaultInRange) => AtStep(sel, 1)

(***************************************************************************)
(* ConfigText as an editor, lines 1521-1606: the text with its marker.     *)
(* No number key is pressed here, so that no character is pending and      *)
(* timeout() has nothing to finish; there is no help window, which         *)
(* onSelect with a session alone creates.  visible_width is 0 for False.   *)
(***************************************************************************)
\* ConfigText.__init__
TextEditor(default, fixed_size, visible_width) ==
    ConfigText(default) @@
    [marked_pos |-> 0, allmarked |-> default # <<>>, fixed_size |-> fixed_size,
     visible_width |-> visible_width, offset |-> 0, overwrite |-> fixed_size]

\* t[a:b] and t[a:] for a, b >= 0
PySlice(t, a, b) == SubSeq(t, a + 1, IF b < Len(t) THEN b ELSE Len(t))
PyFrom(t, a) == SubSeq(t, a + 1, Len(t))

\* ConfigText.deleteChar
deleteChar(e, pos) ==
    IF ~e.fixed_size
    THEN [e EXCEPT !.value = PySlice(e.value, 0, pos) \o PyFrom(e.value, pos + 1)]
    ELSE IF e.overwrite
    THEN [e EXCEPT !.value = PySlice(e.value, 0, pos) \o <<" ">> \o PyFrom(e.value, pos + 1)]
    ELSE [e EXCEPT !.value = PySlice(e.value, 0, pos) \o PyFrom(e.value, pos + 1) \o <<" ">>]

\* ConfigText.deleteAllChars
deleteAllChars(e) ==
    [e EXCEPT !.value = IF e.fixed_size THEN [i \in 1 .. Len(e.value) |-> " "] ELSE <<>>,
              !.marked_pos = 0]

\* The part of validateMarker under if self.visible_width: the last
\* assignment subtracts from the builtin len and raises TypeError
ValidateOffset(e) ==
    LET textlen == Len(e.value)
        low == IF e.marked_pos < e.offset THEN [e EXCEPT !.offset = e.marked_pos] ELSE e
        high == IF low.marked_pos >= low.offset + low.visible_width
                THEN [low EXCEPT !.offset =
                         IF low.marked_pos = textlen
                         THEN low.marked_pos - low.visible_width
                         ELSE low.marked_pos - low.visible_width + 1]
                ELSE low
    IN  IF high.offset > 0 /\ high.offset + high.visible_width > textlen
        THEN [high EXCEPT !.err = "TypeError"]
        ELSE high

\* ConfigText.validateMarker
validateMarker(e) ==
    LET textlen == Len(e.value)
        top == IF e.fixed_size THEN textlen - 1 ELSE textlen
        high == IF e.marked_pos > top THEN [e EXCEPT !.marked_pos = top] ELSE e
        low == IF high.marked_pos < 0 THEN [high EXCEPT !.marked_pos = 0] ELSE high
    IN  IF low.visible_width # 0 THEN ValidateOffset(low) ELSE low

\* The end of ConfigText.handleKey: self.validateMarker(); self.changed()
TextFinish(e) ==
    IF validateMarker(e).err # "none" THEN validateMarker(e)
    ELSE changed(validateMarker(e))

\* The branch of ConfigText.handleKey for the key, before validateMarker
TextBranch(e, key) ==
    IF key = ACTIONKEY_FIRST THEN [e EXCEPT !.allmarked = FALSE, !.marked_pos = 0]
    ELSE IF key = ACTIONKEY_LEFT
    THEN IF e.allmarked
         THEN [e EXCEPT !.marked_pos = Len(e.value), !.allmarked = FALSE]
         ELSE [e EXCEPT !.marked_pos = @ - 1]
    ELSE IF key = ACTIONKEY_RIGHT
    THEN IF e.allmarked
         THEN [e EXCEPT !.marked_pos = 0, !.allmarked = FALSE]
         ELSE [e EXCEPT !.marked_pos = @ + 1]
    ELSE IF key = ACTIONKEY_LAST
    THEN [e EXCEPT !.allmarked = FALSE, !.marked_pos = Len(e.value)]
    ELSE IF key = ACTIONKEY_BACKSPACE
    THEN IF e.allmarked THEN [deleteAllChars(e) EXCEPT !.allmarked = FALSE]
         ELSE IF e.marked_pos > 0
         THEN [deleteChar(e, e.marked_pos - 1) EXCEPT
                  !.offset = IF ~e.fixed_size /\ e.offset > 0 THEN @ - 1 ELSE @,
                  !.marked_pos = @ - 1]
         ELSE e
    ELSE IF key = ACTIONKEY_DELETE
    THEN IF e.allmarked THEN [deleteAllChars(e) EXCEPT !.allmarked = FALSE]
         ELSE [deleteChar(e, e.marked_pos) EXCEPT
                  !.marked_pos = IF e.fixed_size /\ e.overwrite THEN @ + 1 ELSE @]
    ELSE IF key = ACTIONKEY_ERASE THEN deleteAllChars(e)
    ELSE IF key = ACTIONKEY_TOGGLE THEN [e EXCEPT !.overwrite = ~e.overwrite]
    ELSE e

\* ConfigText.handleKey for the keys other than ASCII, the numbers and
\* TIMEOUT
TextHandleKey(e, key) == TextFinish(TextBranch(e, key))

(***************************************************************************)
(* Elements of every class that has a handleKey, under the keys that the   *)
(* classes interpret and the keys that they do not.                        *)
(***************************************************************************)
AnyKeys ==
    {ACTIONKEY_LEFT, ACTIONKEY_RIGHT, ACTIONKEY_SELECT, ACTIONKEY_DELETE,
     ACTIONKEY_BACKSPACE, ACTIONKEY_TOGGLE, ACTIONKEY_PAGEUP, ACTIONKEY_PAGEDOWN}

InitAny ==
    /\ \/ \E i \in 1 .. NumVariants :
            /\ Variant(i).cls \in KeyClasses
            /\ el = Watched(Variant(i))
       \/ \E t \in {<<>>, <<"h", "i">>}, fixed_size \in BOOLEAN :
            el = Watched(TextEditor(t, fixed_size, 0))
    /\ elprev = el
    /\ elops = <<>>
    /\ PY2 \in BOOLEAN
    /\ IdleFile
    /\ disk = {PathA, PathB}
    /\ IdleSeq /\ IdleSel /\ IdleTree

\* handleKey of the class of e
AnyHandleKey(e, key, py2) ==
    IF e.cls = "ConfigText" THEN TextHandleKey(e, key) ELSE ElemHandleKey(e, key, py2)

AnyKey == \E key \in AnyKeys :
    ElemDo(AnyHandleKey(Begin(el), key, PY2), ElemOp("handleKey", key, 0))

NextAny == AnyKey

SpecAny == InitAny /\ [][NextAny]_vars

\* Keys that the handleKey of the class does not interpret: PAGEUP and
\* PAGEDOWN for every class, TOGGLE, DELETE and BACKSPACE for the generic
\* sequence and the IP editor, SELECT for a selector
Uninterpreted(cls) ==
    {ACTIONKEY_PAGEUP, ACTIONKEY_PAGEDOWN}
    \cup (IF cls \in {"ConfigSequence", "ConfigIP"}
          THEN {ACTIONKEY_TOGGLE, ACTIONKEY_DELETE, ACTIONKEY_BACKSPACE} ELSE {})
    \cup (IF cls = "ConfigSelection" THEN {ACTIONKEY_SELECT} ELSE {})

\* C34: handleKey with a key that the class of the element does not
\* interpret raises nothing, calls no notifier and leaves the element,
\* value and cursor, as it was.
C34_IgnoredKeys ==
    (elops # <<>> /\ LastElemOp.op = "handleKey"
        /\ LastElemOp.key \in Uninterpreted(el.cls)) =>
            el = Begin(elprev)

\* C35: the default of an element of any variant is, after every load(),
\* save(), cancel() and key since its construction, the default it was
\* constructed with.
C35_DefaultKept ==
    el.default = elops[1].v.default

\* ConfigElement.isChanged: an absent or empty saved_value stands for the
\* default
isChanged(e) ==
    tostring(e, getValue(e)) #
        (IF e.saved_value.t = "none" \/ e.saved_value.v = <<>>
         THEN tostring(e, e.default)
         ELSE e.saved_value.v)

\* A sequence element without persisted form was loaded and a key then
\* changed a field
FieldEdited(ops, e) ==
    /\ Len(ops) >= 3
    /\ ops[2].op = "load"
    /\ ops[3].op = "handleKey"
    /\ ops[1].v.cls \in SequenceClasses \cup {"ConfigInteger"}
    /\ ops[1].v.saved_value = None
    /\ getValue(e) # getValue(load(ops[1].v, PY2, disk))

\* C36: when a sequence element without persisted form is loaded and a key
\* then changes a field, isChanged() is true, and save() after it leaves
\* the text of the edited value as the persisted form.
C36_EditReachesSave ==
    /\ (Len(elops) = 3 /\ FieldEdited(elops, el)) => isChanged(el)
    /\ (Len(elops) = 4 /\ elops[4].op = "save" /\ FieldEdited(elops, elprev)) =>
           el.saved_value = Str(tostring(el, getValue(el)))

\* clearNotifiers() was called; LastClear is the place of the last such call
Cleared == \E k \in 1 .. Len(elops) : elops[k].op = "clearNotifiers"
LastClear ==
    CHOOSE k \in 1 .. Len(elops) :
        /\ elops[k].op = "clearNotifiers"
        /\ \A j \in k + 1 .. Len(elops) : elops[j].op # "clearNotifiers"

\* C37: after clearNotifiers() a call calls no notifier but those added
\* since, and addNotifier(cb) after it raises nothing and puts cb on the
\* list of its class, the immediate or the final notifiers.
C37_ClearThenAdd ==
    Cleared =>
        /\ \A i \in 1 .. Len(el.fired) :
               \E j \in LastClear + 1 .. Len(elops) :
                   elops[j].op = "addNotifier" /\ elops[j].cb = el.fired[i].cb
        /\ (LastElemOp.op = "addNotifier") =>
               /\ el.err = "none"
               /\ Member(IF LastElemOp.immediate_feedback THEN el.notifiers.v
                         ELSE el.notifiers_final.v, LastElemOp.cb)

\* A value of the slider e within its limits
InSliderRange(e, v) == e.min <= v /\ v <= e.max

\* C38: handleKey on a ConfigSlider whose value is within [min, max] leaves
\* a value within [min, max], and every immediate notifier that the call
\* calls sees a value within [min, max].
C38_SliderNotified ==
    (/\ elops # <<>> /\ LastElemOp.op = "handleKey"
     /\ el.cls = "ConfigSlider" /\ InSliderRange(elprev, elprev.value)) =>
        /\ InSliderRange(el, el.value)
        /\ \A i \in 1 .. Len(el.fired) : InSliderRange(el, el.fired[i].seen)

(***************************************************************************)
(* ConfigClock in 12 hour mode, lines 1163-1221.                           *)
(***************************************************************************)
\* The hour of the clock e lies in the second half of the day
Afternoon(e) == e.value[1] >= 12

\* C39: with config.usage.time.wide set, a key press on a ConfigClock whose
\* hour and minute are within 0..23 and 0..59 leaves them within these
\* limits; the hour passes between the halves of the day (below 12, from 12
\* on) under DELETE and BACKSPACE only, never under a digit; and a digit
\* that the legality checks reject leaves value and cursor as they were and
\* calls no notifier.
C39_HalfKept ==
    [][(wide /\ seq.cls = "ConfigClock" /\ FieldsInLimits(seq)) =>
          /\ FieldsInLimits(seq')
          /\ (Afternoon(seq') # Afternoon(seq)) =>
                LastKey(keys') \in {ACTIONKEY_DELETE, ACTIONKEY_BACKSPACE}
          /\ (LastDigit(keys') >= 0 /\ ClockRejects(seq, LastDigit(keys'), wide)) =>
                seq' = Begin(seq)]_vars

\* 11:59 PM with the cursor on the units of the hour, digit 2: the buffer
\* reads 12, which is stored as hour 12 of the same half
C39_Witness ==
    /\ wide /\ seq.cls = "ConfigClock"
    /\ seq0.value = <<23, 59>> /\ seq0.marked_pos = 1
    /\ keys = <<Digit(2)>>
    /\ seq.value = <<12, 59>> /\ seq.marked_pos = 2
    /\ Len(seq.fired) > 0

(***************************************************************************)
(* The value of a ConfigSelection and its index, lines 762-811.            *)
(***************************************************************************)
\* ConfigSelection.getIndex
getIndex(e, py2) == choices_index(e.choices, e.value, py2)

\* self.choices[ix] is the value of e, ix being the outcome of getIndex
IndexedValue(e, ix) ==
    ix.err = "none" /\ choices_getitem(e.choices, ix.v) = Ok(e.value)

\* The calls so far are setValue, handleKey and load calls, at least one
SelEdited ==
    /\ selops # <<>>
    /\ \A i \in 1 .. Len(selops) : selops[i].op \in {"setValue", "handleKey", "load"}

\* C40: after setValue, handleKey and load calls on a ConfigSelection the
\* value is one of the choices or the default, and when it is one of the
\* choices, index is the position of that choice: choices[index] == value.
C40_SelectorValue ==
    SelEdited =>
        /\ Position(sel) > 0 \/ sel.value = sel.default
        /\ Position(sel) > 0 => IndexedValue(sel, getIndex(sel, PY2))

====
